---- MODULE Spec2Model ----
(***************************************************************************)
(* A model of ncpol2sdpa's relaxation construction engine                  *)
(* (src/ncpol2sdpa/sdp_relaxation.py): the SdpRelaxation object, the       *)
(* moment-matrix generator, the constraint processing, equality            *)
(* elimination and the solve entry point.                                  *)
(*                                                                         *)
(* Encoding.  An operator variable is a string ("X", "Y"); a monomial is a *)
(* word, the sequence of its variables (the unit monomial is the empty     *)
(* word); a polynomial is a sequence of terms [c, w] (coefficient, word).  *)
(* All variables are Hermitian and noncommuting, all coefficients are      *)
(* integers.  An optional argument is None (<<>>) or Some(v) (<<v>>).      *)
(* The sparse matrix F_struct is [none, nrows, ncols, data], data being    *)
(* the set of its nonzero entries <<row, column, value>>.                  *)
(***************************************************************************)
EXTENDS Integers, Sequences, FiniteSets, TLC

\* ------------------------------------------------------------------ bounds
\* calls made on one object in the life-cycle specification
MaxOps == 2
\* extra moment matrices requested in one build
MaxExtra == 1

\* --------------------------------------------------------------- utilities
None == <<>>
Some(x) == <<x>>
IsNone(o) == Len(o) = 0
Get(o) == o[1]

NoErr == "ok"

\* Python's range(a, b) as a sequence
Range(a, b) == [i \in 1..(IF b > a THEN b - a ELSE 0) |-> a + i - 1]

Elements(s) == {s[i] : i \in 1..Len(s)}

RECURSIVE ConcatAll(_)
ConcatAll(ss) == IF Len(ss) = 0 THEN <<>> ELSE Head(ss) \o ConcatAll(Tail(ss))

RECURSIVE SumSeq(_)
SumSeq(s) == IF Len(s) = 0 THEN 0 ELSE Head(s) + SumSeq(Tail(s))

Max(a, b) == IF a > b THEN a ELSE b

Reverse(w) == [i \in 1..Len(w) |-> w[Len(w) + 1 - i]]

\* nc_utils.unique: the list without repeated elements, first occurrences kept
RECURSIVE unique(_)
unique(s) ==
    IF Len(s) = 0 THEN <<>>
    ELSE LET init == unique(SubSeq(s, 1, Len(s) - 1))
             x == s[Len(s)]
         IN IF \E i \in 1..Len(init) : init[i] = x THEN init ELSE Append(init, x)

\* ----------------------------------------------------------------- algebra
One == <<>>
Term(c, w) == [c |-> c, w |-> w]
Mono(w) == <<Term(1, w)>>

\* the operator variables of the problem, and the symbolic parameter
Variables == <<"X", "Y">>
ParamSym == "p"

\* adjoint of a product of Hermitian operators
Adjoint(w) == Reverse(w)

RECURSIVE Combine(_, _)
Combine(poly, acc) ==
    IF Len(poly) = 0 THEN acc
    ELSE LET t == Head(poly) IN
         IF \E i \in 1..Len(acc) : acc[i].w = t.w
         THEN Combine(Tail(poly),
                      [i \in 1..Len(acc) |->
                          IF acc[i].w = t.w THEN Term(acc[i].c + t.c, t.w)
                          ELSE acc[i]])
         ELSE Combine(Tail(poly), Append(acc, t))

\* SymPy's automatic simplification of a sum: like terms are collected and
\* terms with coefficient 0 vanish
Normalize(poly) == SelectSeq(Combine(poly, <<>>), LAMBDA t : t.c # 0)

\* left * poly * right for words left, right
MulWords(left, poly, right) ==
    Normalize([i \in 1..Len(poly) |-> Term(poly[i].c, left \o poly[i].w \o right)])

Neg(poly) == [i \in 1..Len(poly) |-> Term(0 - poly[i].c, poly[i].w)]

\* nc_utils.ncdegree
RECURSIVE ncdegree(_)
ncdegree(poly) ==
    IF Len(poly) = 0 THEN 0 ELSE Max(Len(Head(poly).w), ncdegree(Tail(poly)))

\* nc_utils.is_number_type / Expr.is_Number: no operator is left in it
is_number_type(poly) == \A i \in 1..Len(poly) : poly[i].w = One
NumberValue(poly) == SumSeq([i \in 1..Len(poly) |-> poly[i].c])
is_Add(poly) == Len(poly) > 1

\* the positions at which the word lhs occurs in the word w
Occurrences(lhs, w) ==
    {i \in 1..(Len(w) - Len(lhs) + 1) : SubSeq(w, i, i + Len(lhs) - 1) = lhs}

\* the rules of a substitution dictionary that match somewhere in the term
Matching(t, rules) == {r \in 1..Len(rules) : Occurrences(rules[r].lhs, t.w) # {}}

\* one rewriting step on a term: the first matching rule at its first place
RewriteTerm(t, rules) ==
    LET r == CHOOSE r \in Matching(t, rules) : \A q \in Matching(t, rules) : r <= q
        occ == Occurrences(rules[r].lhs, t.w)
        i == CHOOSE i \in occ : \A j \in occ : i <= j
        pre == SubSeq(t.w, 1, i - 1)
        post == SubSeq(t.w, i + Len(rules[r].lhs), Len(t.w))
        rhs == rules[r].rhs
    IN  [k \in 1..Len(rhs) |-> Term(t.c * rhs[k].c, pre \o rhs[k].w \o post)]

RECURSIVE Rewrite(_, _)
Rewrite(poly, rules) ==
    IF \A i \in 1..Len(poly) : Matching(poly[i], rules) = {} THEN poly
    ELSE Rewrite(Normalize(ConcatAll([i \in 1..Len(poly) |->
                    IF Matching(poly[i], rules) = {} THEN <<poly[i]>>
                    ELSE RewriteTerm(poly[i], rules)])), rules)

\* nc_utils.apply_substitutions: the rules applied until none matches
apply_substitutions(poly, substitutions, pure_substitution_rules) ==
    Rewrite(Normalize(poly), substitutions)

\* nc_utils.simplify_polynomial
simplify_polynomial(poly, substitutions) == Rewrite(Normalize(poly), substitutions)

\* nc_utils.is_pure_substitution_rule: one monomial goes to one monomial
is_pure_substitution_rule(lhs, rhs) == Len(rhs) <= 1

\* the term I * w.  Its coefficient is the imaginary unit, which is not a
\* number of the model: no arithmetic is defined on it
ImaginaryTerm(w) == [c |-> "I", w |-> w, im |-> TRUE]

\* the complex number a + b*I with integers a and b below 500 in size, as
\* one integer: sums, differences and products with a real integer are the
\* sums, differences and products of the integers.  No input multiplies
\* two numbers that are not real.
Complex(a, b) == a + 1000 * b
\* the term (a + b*I) * w
ComplexTerm(a, b, w) == [c |-> Complex(a, b), w |-> w, im |-> TRUE]

\* nc_utils.iscomplex: the variables are Hermitian, so an expression is
\* complex when the imaginary unit is in it
iscomplex(poly) == \E i \in 1..Len(poly) : "im" \in DOMAIN poly[i]

RECURSIVE WordsOfDegree(_, _)
WordsOfDegree(variables, d) ==
    IF d = 0 THEN <<One>>
    ELSE LET prev == WordsOfDegree(variables, d - 1)
             n == Len(variables)
         IN [i \in 1..(Len(prev) * n) |->
                Append(prev[((i - 1) \div n) + 1], variables[((i - 1) % n) + 1])]

\* nc_utils.get_all_monomials: the words up to the degree, then the extra
\* monomials, without the words a substitution rewrites and without repeats
get_all_monomials(variables, extramonomials, substitutions, level) ==
    LET words == ConcatAll([d \in 1..(level + 1) |-> WordsOfDegree(variables, d - 1)])
        all == words \o (IF IsNone(extramonomials) THEN <<>> ELSE Get(extramonomials))
        kept == SelectSeq(all, LAMBDA w : Rewrite(Mono(w), substitutions) = Mono(w))
    IN  unique(kept)

\* nc_utils.pick_monomials_up_to_degree: the unit monomial when the degree is
\* not negative, then the monomials of degree 1, 2, ... up to the degree
pick_monomials_up_to_degree(monomials, degree) ==
    IF degree < 0 THEN <<>>
    ELSE <<One>> \o ConcatAll([d \in 1..degree |->
                        SelectSeq(monomials, LAMBDA w : Len(w) = d)])

\* nc_utils.find_variable_set: there is one set of variables
find_variable_set(variables, polynomial) == 0


\* ------------------------------------------------------------ the object
VARIABLES
    self,      \* the fields of the SdpRelaxation object
    last,      \* the call made last, its arguments and how it ended
    ops        \* the number of calls made on the object

vars == <<self, last, ops>>

\* F_struct before get_relaxation: None
NoF == [none |-> TRUE, nrows |-> 0, ncols |-> 0, data |-> {}]

EmptyMap == [w \in {} |-> 0]

\* Relaxation.__init__ and SdpRelaxation.__init__
SdpRelaxation_init(parameters, verbose, normalized, parallel) ==
    [ n_vars |-> 0, n_vars_half |-> FALSE,
      F_struct |-> NoF,
      block_struct |-> <<>>,
      obj_facvar |-> <<>>,
      constant_term |-> 0,
      status |-> "unsolved",
      constraints_hash |-> {},
      substitutions |-> <<>>,
      monomial_index |-> EmptyMap,
      var_offsets |-> <<0>>,
      variables |-> Variables,
      verbose |-> verbose,
      localizing_monomial_sets |-> None,
      normalized |-> normalized,
      constraint_starting_block |-> 0,
      level |-> 0,
      monomial_sets |-> <<>>,
      pure_substitution_rules |-> TRUE,
      constraints |-> <<>>,
      moment_substitutions |-> EmptyMap,
      complex_matrix |-> FALSE,
      parameters |-> parameters,
      parallel |-> parallel,
      \* not fields of the object: the exception that ended the running call,
      \* and whether the call printed the degree warning
      err |-> NoErr,
      warnings |-> 0 ]

Raise(s, e) == IF s.err # NoErr THEN s ELSE [s EXCEPT !.err = e]

\* ------------------------------------------------------- the sparse matrix
\* scipy.sparse.lil_matrix((nrows, ncols))
lil_matrix(nrows, ncols) == [none |-> FALSE, nrows |-> nrows, ncols |-> ncols, data |-> {}]

\* F_struct[r, c]
F_get(F, r, c) ==
    IF \E e \in F.data : e[1] = r /\ e[2] = c
    THEN (CHOOSE e \in F.data : e[1] = r /\ e[2] = c)[3]
    ELSE 0

InRange(F, r, c) == r >= 0 /\ r < F.nrows /\ c >= 0 /\ c < F.ncols

\* the data after F_struct[r, c] = v: a zero is not stored
DataSet(data, r, c, v) ==
    {e \in data : ~(e[1] = r /\ e[2] = c)} \cup (IF v = 0 THEN {} ELSE {<<r, c, v>>})

\* the IndexError of a column index outside the matrix
ColumnOutOfRange == "IndexError: column index out of range"
OutOfRange(F, r, c) == IF r >= 0 /\ r < F.nrows THEN ColumnOutOfRange ELSE "IndexError"

\* self.F_struct[r, c] = v; an index outside the matrix raises IndexError
F_set(s, r, c, v) ==
    IF s.err # NoErr THEN s
    ELSE IF ~InRange(s.F_struct, r, c) THEN Raise(s, OutOfRange(s.F_struct, r, c))
    ELSE [s EXCEPT !.F_struct.data = DataSet(@, r, c, v)]

\* the entries <<column, value>> of a row
RowEntries(F, r) == {<<e[2], e[3]>> : e \in {x \in F.data : x[1] = r}}

\* ------------------------------------------- generating the moment matrices
\* SdpRelaxation._process_monomial: <<k, coeff, monomial_index>>
process_monomial(s, term, n_vars) ==
    LET monomial == term.w          \* separate_scalar_factor
        coeff == term.c
    IN  IF monomial \in DOMAIN s.moment_substitutions
        THEN <<0, coeff * s.moment_substitutions[monomial], s.monomial_index>>
        ELSE IF monomial \in DOMAIN s.monomial_index
        THEN <<s.monomial_index[monomial], coeff, s.monomial_index>>
        ELSE <<n_vars + 1, coeff, (monomial :> (n_vars + 1)) @@ s.monomial_index>>

\* the flattened row of a cell (lines 271-272, 290-292)
CellRow(row_offset, rowA, columnA, N, rowB, columnB, lenB) ==
    row_offset + rowA * N * lenB + rowB * N + columnA * lenB + columnB

\* SdpRelaxation._push_monomial on an expression that is not a sum;
\* g = [s |-> the object, n |-> n_vars]
push_single(g, monomial, row_offset, rowA, columnA, N, rowB, columnB, lenB) ==
    LET row == CellRow(row_offset, rowA, columnA, N, rowB, columnB, lenB)
    IN  IF g.s.err # NoErr THEN g
        ELSE IF is_number_type(monomial)
        THEN IF rowA = 0 /\ columnA = 0 /\ rowB = 0 /\ columnB = 0
                /\ NumberValue(monomial) = 1
             THEN IF ~g.s.normalized
                  THEN [s |-> F_set(g.s, row, g.n + 1, 1), n |-> g.n + 1]
                  ELSE [s |-> F_set(g.s, row, 0, 1), n |-> g.n]
             ELSE [s |-> F_set(g.s, row, 0, NumberValue(monomial)), n |-> g.n]
        ELSE LET r == process_monomial(g.s, monomial[1], g.n)
                 s1 == [g.s EXCEPT !.monomial_index = r[3]]
             IN  [s |-> F_set(s1, row, r[1], r[2]), n |-> Max(r[1], g.n)]

RECURSIVE push_terms(_, _, _, _, _, _, _, _, _)
push_terms(g, terms, row_offset, rowA, columnA, N, rowB, columnB, lenB) ==
    IF Len(terms) = 0 \/ g.s.err # NoErr THEN g
    ELSE push_terms(push_single(g, <<Head(terms)>>, row_offset, rowA, columnA, N,
                                rowB, columnB, lenB),
                    Tail(terms), row_offset, rowA, columnA, N, rowB, columnB, lenB)

\* SdpRelaxation._push_monomial
push_monomial(g, monomial, row_offset, rowA, columnA, N, rowB, columnB, lenB, prevent) ==
    LET push(m) ==
            IF is_Add(m) /\ ~is_number_type(m)
            THEN push_terms(g, m, row_offset, rowA, columnA, N, rowB, columnB, lenB)
            ELSE push_single(g, m, row_offset, rowA, columnA, N, rowB, columnB, lenB)
    IN  push(IF prevent THEN monomial
             ELSE apply_substitutions(monomial, g.s.substitutions,
                                      g.s.pure_substitution_rules))

\* the product of the cell (lines 321-330, 1327-1336)
CellMonomial(monomialsA, monomialsB, ppt, rowA, columnA, rowB, columnB) ==
    IF (~ppt) \/ columnB >= rowB
    THEN Mono(Adjoint(monomialsA[rowA + 1]) \o monomialsA[columnA + 1]
              \o Adjoint(monomialsB[rowB + 1]) \o monomialsB[columnB + 1])
    ELSE Mono(Adjoint(monomialsA[rowA + 1]) \o monomialsA[columnA + 1]
              \o Adjoint(monomialsB[columnB + 1]) \o monomialsB[rowB + 1])

\* the cells <<rowA, columnA, rowB, columnB>> in the order of the sequential
\* loops (lines 313-319)
SequentialCells(lenA, lenB) ==
    ConcatAll([a \in 1..lenA |->
      ConcatAll([ca \in 1..(lenA - a + 1) |->
        ConcatAll([b \in 1..lenB |->
          LET rowA == a - 1
              columnA == rowA + ca - 1
              rowB == b - 1
              start_columnB == IF rowA = columnA THEN rowB ELSE 0
          IN  [i \in 1..(lenB - start_columnB) |->
                  <<rowA, columnA, rowB, start_columnB + i - 1>>]])])])

\* the arguments <<rowA, columnA, rowB>> handed to the pool, in the order of
\* the generator (lines 348-353)
ParallelArgs(lenA, lenB) ==
    ConcatAll([a \in 1..lenA |->
      ConcatAll([b \in 1..lenB |->
        [ca \in 1..(lenA - a + 1) |-> <<a - 1, (a - 1) + ca - 1, b - 1>>]])])

\* assemble_monomial_and_do_substitutions: the loop over columnB runs to its
\* end and the function returns once, with the last columnB and its monomial
assemble_monomial_and_do_substitutions(arg, monomialsA, monomialsB, ppt, substitutions, pure) ==
    LET rowA == arg[1]
        columnA == arg[2]
        rowB == arg[3]
        columnB == Len(monomialsB) - 1
    IN  <<rowA, columnA, rowB, columnB,
          apply_substitutions(
              CellMonomial(monomialsA, monomialsB, ppt, rowA, columnA, rowB, columnB),
              substitutions, pure)>>

RECURSIVE push_sequential(_, _, _, _, _, _, _)
push_sequential(g, cells, row_offset, N, monomialsA, monomialsB, ppt) ==
    IF Len(cells) = 0 \/ g.s.err # NoErr THEN g
    ELSE LET c == Head(cells) IN
         push_sequential(
            push_monomial(g, CellMonomial(monomialsA, monomialsB, ppt,
                                          c[1], c[2], c[3], c[4]),
                          row_offset, c[1], c[2], N, c[3], c[4], Len(monomialsB), FALSE),
            Tail(cells), row_offset, N, monomialsA, monomialsB, ppt)

RECURSIVE push_parallel(_, _, _, _, _)
push_parallel(g, results, row_offset, N, lenB) ==
    IF Len(results) = 0 \/ g.s.err # NoErr THEN g
    ELSE LET r == Head(results) IN
         push_parallel(
            push_monomial(g, r[5], row_offset, r[1], r[2], N, r[3], r[4], lenB, TRUE),
            Tail(results), row_offset, N, lenB)

\* the sum of block_size ** 2 over the blocks before block_index
RowOffset(block_struct, block_index) ==
    SumSeq([i \in 1..(IF block_index < Len(block_struct) THEN block_index
                      ELSE Len(block_struct)) |-> block_struct[i] * block_struct[i]])

\* SdpRelaxation._generate_moment_matrix: [s, n, block_index]
generate_moment_matrix(s, n_vars, block_index, monomialsA, monomialsB, ppt) ==
    LET row_offset == IF block_index > 0 THEN RowOffset(s.block_struct, block_index) ELSE 0
        lenA == Len(monomialsA)
        lenB == Len(monomialsB)
        N == lenA * lenB
        g0 == [s |-> s, n |-> n_vars]
        \* the progress line, printed after each row of the sequential loop and
        \* after each result of the pool, divides by self.n_vars (lines 336-339,
        \* 362-365)
        zero == s.verbose > 0 /\ s.n_vars = 0 /\ ~s.n_vars_half
        cells == IF zero
                 THEN SelectSeq(SequentialCells(lenA, lenB), LAMBDA c : c[1] = 0)
                 ELSE SequentialCells(lenA, lenB)
        args == IF zero THEN SubSeq(ParallelArgs(lenA, lenB), 1, 1)
                ELSE ParallelArgs(lenA, lenB)
        pushed(g) ==
            [s |-> IF zero /\ lenA > 0 THEN Raise(g.s, "ZeroDivisionError") ELSE g.s,
             n |-> g.n, block_index |-> block_index + 1]
    IN  pushed(IF ~s.parallel
               THEN push_sequential(g0, cells, row_offset, N, monomialsA, monomialsB, ppt)
               ELSE push_parallel(g0,
                      [i \in 1..Len(args) |->
                         assemble_monomial_and_do_substitutions(args[i], monomialsA,
                             monomialsB, ppt, s.substitutions, s.pure_substitution_rules)],
                      row_offset, N, lenB))

\* SdpRelaxation._generate_all_moment_matrix_blocks
RECURSIVE generate_all_moment_matrix_blocks(_, _, _, _)
generate_all_moment_matrix_blocks(s, n_vars, block_index, k) ==
    IF k > Len(s.monomial_sets) \/ s.err # NoErr
    THEN [s |-> s, n |-> n_vars, block_index |-> block_index]
    ELSE LET monomials == s.monomial_sets[k]
             generated(r) ==
                generate_all_moment_matrix_blocks(
                    IF r.s.err = NoErr THEN [r.s EXCEPT !.var_offsets = Append(@, r.n)]
                    ELSE r.s,
                    r.n, r.block_index, k + 1)
         IN  IF monomials.pair /\ Len(monomials.A) # Len(monomials.B)
             THEN [s |-> Raise(s, "Exception: unequal monomial lists"),
                   n |-> n_vars, block_index |-> block_index]
             ELSE generated(generate_moment_matrix(s, n_vars, block_index, monomials.A,
                                IF monomials.pair THEN monomials.B ELSE <<One>>, FALSE))


\* ---------------------------------------- localizing matrices, constraints
\* nc_utils.flatten of a list of optional lists: a None is skipped
flatten(lists) ==
    ConcatAll([i \in 1..Len(lists) |-> IF IsNone(lists[i]) THEN <<>> ELSE Get(lists[i])])

\* SdpRelaxation._get_index_of_monomial: [err, result], result the list of
\* <<k, coeff>>
RECURSIVE get_index_of_monomial(_, _, _)
RECURSIVE index_of_terms(_, _, _, _)
index_of_terms(s, monomials, coeff1, daggered) ==
    IF Len(monomials) = 0 THEN [err |-> NoErr, result |-> <<>>]
    ELSE LET monomial == Head(monomials).w
             coeff == coeff1 * Head(monomials).c
             scaled(dag) ==
                [err |-> dag.err,
                 result |-> [i \in 1..Len(dag.result) |->
                               <<dag.result[i][1], dag.result[i][2] * coeff>>]]
             followed(here) ==
                IF here.err # NoErr THEN here
                ELSE LET rest == index_of_terms(s, Tail(monomials), coeff1, daggered)
                     IN  [err |-> rest.err, result |-> here.result \o rest.result]
         IN  followed(
                IF monomial = One THEN [err |-> NoErr, result |-> <<<<0, coeff>>>>]
                ELSE IF monomial \in DOMAIN s.moment_substitutions
                THEN [err |-> NoErr,
                      result |-> <<<<0, s.moment_substitutions[monomial] * coeff>>>>]
                ELSE IF monomial \in DOMAIN s.monomial_index
                THEN [err |-> NoErr, result |-> <<<<s.monomial_index[monomial], coeff>>>>]
                ELSE IF ~daggered
                THEN scaled(get_index_of_monomial(s, Term(1, Adjoint(monomial)), TRUE))
                ELSE [err |-> "RuntimeError: monomial not found", result |-> <<>>])

get_index_of_monomial(s, element, daggered) ==
    LET coeff1 == element.c
        indexed(processed_element) ==
            IF is_number_type(processed_element)
            THEN [err |-> NoErr, result |-> <<<<0, coeff1>>>>]
            ELSE index_of_terms(s, processed_element, coeff1, daggered)
    IN  indexed(apply_substitutions(Mono(element.w), s.substitutions,
                                    s.pure_substitution_rules))

\* the loop of lines 472-474: F_struct[row, k] += coeff
RECURSIVE add_results(_, _, _)
add_results(s, results, row) ==
    IF Len(results) = 0 \/ s.err # NoErr THEN s
    ELSE LET k == Head(results)[1]
             coeff == Head(results)[2]
             s1 == IF k > -1 /\ coeff # 0
                   THEN F_set(s, row, k, F_get(s.F_struct, row, k) + coeff)
                   ELSE s
         IN  add_results(s1, Tail(results), row)

\* the loop of lines 469-474 over the elements of the polynomial
RECURSIVE push_elements(_, _, _)
push_elements(s, elements, row) ==
    IF Len(elements) = 0 \/ s.err # NoErr THEN s
    ELSE LET found(r) ==
                IF r.err # NoErr THEN Raise(s, r.err)
                ELSE push_elements(add_results(s, r.result, row), Tail(elements), row)
         IN  found(get_index_of_monomial(s, Head(elements), FALSE))

\* SdpRelaxation.__push_facvar_sparse
push_facvar_sparse(s, polynomial, block_index, row_offset, i, j) ==
    IF s.err # NoErr THEN s
    ELSE IF block_index - 1 < 0 \/ block_index - 1 >= Len(s.block_struct)
    THEN Raise(s, "IndexError")
    ELSE LET width == s.block_struct[block_index]
         IN  push_elements(s, polynomial, row_offset + i * width + j)

RECURSIVE facvar_add(_, _)
facvar_add(f, results) ==
    IF Len(results) = 0 \/ f.err # NoErr THEN f
    ELSE LET k == Head(results)[1]
             coeff == Head(results)[2]
         IN  IF k < 0 \/ k >= Len(f.facvar)
             THEN [f EXCEPT !.err = "IndexError"]
             ELSE facvar_add([f EXCEPT !.facvar[k + 1] = @ + coeff], Tail(results))

RECURSIVE facvar_elements(_, _, _)
facvar_elements(s, f, elements) ==
    IF Len(elements) = 0 \/ f.err # NoErr THEN f
    ELSE LET found(r) ==
                IF r.err # NoErr THEN [f EXCEPT !.err = r.err]
                ELSE facvar_elements(s, facvar_add(f, r.result), Tail(elements))
         IN  found(get_index_of_monomial(s, Head(elements), FALSE))

\* SdpRelaxation._get_facvar: [err, facvar], facvar[k + 1] the coefficient of
\* column k
get_facvar(s, polynomial) ==
    IF s.n_vars_half THEN [err |-> "TypeError", facvar |-> <<>>]
    ELSE LET zero == [err |-> NoErr, facvar |-> [k \in 1..(s.n_vars + 1) |-> 0]]
         IN  IF is_number_type(polynomial)
             THEN [zero EXCEPT !.facvar[1] = NumberValue(polynomial)]
             ELSE facvar_elements(s, zero, polynomial)

\* the rows written for one constraint (lines 527-536)
RECURSIVE push_localizing(_, _, _, _, _, _)
push_localizing(s, cells, ineq, monomials, block_index, row_offset) ==
    IF Len(cells) = 0 \/ s.err # NoErr THEN s
    ELSE LET row == Head(cells)[1]
             column == Head(cells)[2]
             polynomial ==
                simplify_polynomial(
                    MulWords(Adjoint(monomials[row + 1]), ineq, monomials[column + 1]),
                    s.substitutions)
         IN  push_localizing(
                push_facvar_sparse(s, polynomial, block_index, row_offset, row, column),
                Tail(cells), ineq, monomials, block_index, row_offset)

UpperCells(n) ==
    ConcatAll([r \in 1..n |-> [c \in 1..(n - r + 1) |-> <<r - 1, (r - 1) + c - 1>>]])

\* SdpRelaxation.__process_inequalities: the pool of the parallel branch
\* returns the same polynomials in the same order as the sequential loop
RECURSIVE process_inequalities(_, _, _, _)
process_inequalities(s, block_index, initial_block_index, k) ==
    IF k > Len(s.constraints) \/ s.err # NoErr THEN s
    ELSE LET bi == block_index + 1
             ineq == s.constraints[k]
             sets == IF IsNone(s.localizing_monomial_sets) THEN <<>>
                     ELSE Get(s.localizing_monomial_sets)
             li == bi - initial_block_index - 1
         IN  IF IsNone(s.localizing_monomial_sets)
             THEN Raise(s, "TypeError")
             ELSE IF li < 0 \/ li >= Len(sets) \/ bi - 1 > Len(s.block_struct)
             THEN Raise(s, "IndexError")
             ELSE LET monomials == sets[li + 1]
                      s1 == push_localizing(s, UpperCells(Len(monomials)), ineq,
                                            monomials, bi,
                                            RowOffset(s.block_struct, bi - 1))
                  IN  process_inequalities(s1, bi, initial_block_index, k + 1)


\* SdpRelaxation.__process_equalities: [err, A], A the rows of the matrix
RECURSIVE equality_rows(_, _, _, _)
equality_rows(s, cells, equality, monomials) ==
    IF Len(cells) = 0 THEN [err |-> NoErr, A |-> <<>>]
    ELSE LET row == Head(cells)[1]
             column == Head(cells)[2]
             polynomial ==
                simplify_polynomial(
                    MulWords(Adjoint(monomials[row + 1]), equality,
                             monomials[column + 1]),
                    s.substitutions)
             signed(f) == IF f.err = NoErr /\ f.facvar[1] < 0
                          THEN [i \in 1..Len(f.facvar) |-> 0 - f.facvar[i]]
                          ELSE f.facvar
             appended(f) ==
                IF f.err # NoErr THEN [err |-> f.err, A |-> <<>>]
                ELSE LET rest == equality_rows(s, Tail(cells), equality, monomials)
                     IN  [err |-> rest.err, A |-> <<signed(f)>> \o rest.A]
         IN  appended(get_facvar(s, polynomial))

\* the localizing monomials of a constraint of the given degree (lines
\* 592-599, 805-815)
LocalizingMonomials(s, localization_order) ==
    LET index == find_variable_set(s.variables, <<>>)
        set == s.monomial_sets[index + 1]
        \* the two bases of a two-basis entry are lists, not monomials
        picked == pick_monomials_up_to_degree(IF set.pair THEN <<>> ELSE set.A,
                                              localization_order)
    IN  unique(IF Len(picked) = 0 THEN <<One>> ELSE picked)

RECURSIVE process_equalities(_, _, _)
process_equalities(s, equalities, i) ==
    IF i > Len(equalities) THEN [err |-> NoErr, A |-> <<>>]
    ELSE LET rest == process_equalities(s, equalities, i + 1)
             eq_order == ncdegree(equalities[i])
             localizing_monomials ==
                LocalizingMonomials(s, (2 * s.level - eq_order) \div 2)
             stacked(rows) == IF rows.err # NoErr THEN rows
                              ELSE [err |-> rest.err, A |-> rows.A \o rest.A]
         IN  \* the first loop raises before any row is computed
             IF \E j \in i..Len(equalities) : ncdegree(equalities[j]) > 2 * s.level
             THEN [err |-> "Exception: equality degree", A |-> <<>>]
             ELSE IF Len(s.monomial_sets) = 0 THEN [err |-> "IndexError", A |-> <<>>]
             ELSE IF s.F_struct.none THEN [err |-> "AttributeError", A |-> <<>>]
             ELSE stacked(equality_rows(s, UpperCells(Len(localizing_monomials)),
                                        equalities[i], localizing_monomials))

\* the rows of A for the moment equalities, appended to the rows A
RECURSIVE moment_equality_rows(_, _, _)
moment_equality_rows(s, A, momentequalities) ==
    IF Len(momentequalities) = 0 THEN [err |-> NoErr, A |-> A]
    ELSE LET appended(rows) ==
                IF rows.err # NoErr THEN rows
                ELSE moment_equality_rows(s, A \o rows.A, Tail(momentequalities))
         IN  appended(equality_rows(s, UpperCells(1), Head(momentequalities), <<One>>))

\* the columns of a row of A, beyond the constant, that are not zero
NonzeroColumns(row) == {k \in 1..(Len(row) - 1) : row[k + 1] # 0}

Sign(a) == IF a < 0 THEN -1 ELSE 1

\* the solution with the sign of the constant kept
solution_unsigned(row, k) ==
    Sign(row[k + 1]) * (row[1] \div (IF row[k + 1] < 0 THEN 0 - row[k + 1] ELSE row[k + 1]))

\* the component k of the solution x of line 642-643 for the equation
\* a * y_k + A0 = 0, A0 a multiple of a: -A0 / a
solution(row, k) ==
    (0 - Sign(row[k + 1]))
        * (row[1] \div (IF row[k + 1] < 0 THEN 0 - row[k + 1] ELSE row[k + 1]))

\* SdpRelaxation.__remove_equalities.  The elimination is computed for one
\* equation in one variable, a * y_k + A0 = 0: the pivoted QR factorisation
\* of the column a * e_k is one Householder reflection, the identity when
\* k = 1 and the exchange of e_1 and e_k with the sign -sign(a) otherwise.
\* The solution x sets y_k = -A0 / a; the new basis H keeps the other
\* variables, in their order.
eliminate(s, row, k) ==
    LET n == s.n_vars
        a == row[k + 1]
        A0 == row[1]
        sg == Sign(a)
        mag == IF a < 0 THEN 0 - a ELSE a
        x_k == solution(row, k)
        \* the column of the old variable j in the new basis, its factor; 0
        \* when the variable is eliminated
        newcol(j) == IF j = k THEN 0
                     ELSE IF j = 1 THEN k - 1
                     ELSE j - 1
        factor(j) == IF j = 1 /\ k > 1 THEN 0 - sg ELSE 1
        F == s.F_struct
        kept == {e \in F.data : e[2] >= 1 /\ e[2] <= n /\ e[2] # k}
        rows == {e[1] : e \in {x \in F.data : x[2] = 0 \/ x[2] = k}}
        constant == {<<i, 0, F_get(F, i, 0) + x_k * F_get(F, i, k)>> : i \in rows}
    IN  IF A0 % mag # 0 THEN Raise(s, "outside the modelled eliminations")
        ELSE IF Len(s.obj_facvar) # n THEN Raise(s, "ValueError")
        ELSE [s EXCEPT
               !.obj_facvar = [j \in 1..(n - 1) |->
                   IF k > 1 /\ j = k - 1 THEN (0 - sg) * s.obj_facvar[1]
                   ELSE s.obj_facvar[j + 1]],
               !.F_struct = [none |-> FALSE, nrows |-> F.nrows, ncols |-> n,
                             data |-> {e \in constant : e[3] # 0} \cup
                                      {<<e[1], newcol(e[2]), factor(e[2]) * e[3]>>
                                           : e \in kept}],
               !.n_vars = n - 1]

remove_equalities(s, equalities, momentequalities) ==
    LET moments(r) ==
            \* the rows of the moment equalities follow those of the equalities
            \* (lines 606-612): each has the one localizing monomial 1
            IF r.err # NoErr \/ IsNone(momentequalities) THEN r
            ELSE moment_equality_rows(s, r.A, Get(momentequalities))
        solved(r) ==
            IF r.err # NoErr THEN Raise(s, r.err)
            ELSE IF Len(r.A) = 0 THEN s
            ELSE IF \A i \in 1..Len(r.A) : NonzeroColumns(r.A[i]) = {}
            THEN Raise(s, "ValueError")
            ELSE IF Len(r.A) > 1 \/ Cardinality(NonzeroColumns(r.A[1])) > 1
            THEN Raise(s, "outside the modelled eliminations")
            ELSE eliminate(s, r.A[1], CHOOSE k \in NonzeroColumns(r.A[1]) : TRUE)
    IN  IF s.err # NoErr THEN s
        ELSE solved(moments(process_equalities(
                        s, IF IsNone(equalities) THEN <<>> ELSE Get(equalities), 1)))

\* SdpRelaxation.__duplicate_momentmatrix: [s, n, block_index]
RECURSIVE duplicate_rows(_, _, _, _, _)
duplicate_rows(s, rows, row_offset, original_n_vars, n_vars) ==
    IF Len(rows) = 0 \/ s.err # NoErr THEN s
    ELSE LET row == Head(rows)
             F == s.F_struct
             first == n_vars + 1
             stop == IF n_vars + original_n_vars + 2 < F.ncols
                     THEN n_vars + original_n_vars + 2 ELSE F.ncols
             source == {e \in RowEntries(F, row) : e[1] <= original_n_vars}
             s1 == IF row_offset + row >= F.nrows \/ row >= F.nrows
                   THEN Raise(s, "IndexError")
                   ELSE IF stop - first # original_n_vars + 1
                   THEN Raise(s, "ValueError")
                   ELSE [s EXCEPT !.F_struct.data =
                          {e \in @ : ~(e[1] = row_offset + row /\ e[2] >= first
                                        /\ e[2] < stop)}
                          \cup {<<row_offset + row, first + e[1], e[2]>> : e \in source}]
         IN  duplicate_rows(s1, Tail(rows), row_offset, original_n_vars, n_vars)

duplicate_momentmatrix(s, original_n_vars, n_vars, block_index) ==
    LET s0 == [s EXCEPT !.var_offsets = Append(@, n_vars)]
        row_offset == RowOffset(s.block_struct, block_index)
        width == s.block_struct[1]
    IN  [s |-> duplicate_rows(s0, Range(0, width * width), row_offset,
                              original_n_vars, n_vars),
         n |-> n_vars + original_n_vars + 1,
         block_index |-> block_index + 1]

\* SdpRelaxation.__add_new_momentmatrix: [s, n, block_index]
RECURSIVE new_cells(_, _, _, _)
new_cells(g, cells, row_offset, width) ==
    IF Len(cells) = 0 \/ g.s.err # NoErr THEN g
    ELSE LET i == Head(cells)[1]
             j == Head(cells)[2]
         IN  new_cells([s |-> F_set(g.s, row_offset + i * width + j, g.n + 1, 1),
                        n |-> g.n + 1],
                       Tail(cells), row_offset, width)

add_new_momentmatrix(s, n_vars, block_index) ==
    LET s0 == [s EXCEPT !.var_offsets = Append(@, n_vars)]
        row_offset == RowOffset(s.block_struct, block_index)
        width == s.block_struct[1]
        added(g) == [s |-> g.s, n |-> g.n, block_index |-> block_index + 1]
    IN  added(new_cells([s |-> s0, n |-> n_vars], UpperCells(width), row_offset, width))

\* SdpRelaxation.__add_extra_momentmatrices: the parameters of an extra
\* moment matrix are "copy" or nothing
RECURSIVE add_extra_momentmatrices(_, _, _, _, _)
add_extra_momentmatrices(s, extramomentmatrices, original_n_vars, n_vars, block_index) ==
    IF Len(extramomentmatrices) = 0 \/ s.err # NoErr
    THEN [s |-> s, n |-> n_vars, block_index |-> block_index]
    ELSE LET parameters == Head(extramomentmatrices)
             copy == \E i \in 1..Len(parameters) : parameters[i] = "copy"
             added(r) ==
                add_extra_momentmatrices(r.s, Tail(extramomentmatrices), original_n_vars,
                                         r.n, r.block_index)
         IN  added(IF copy
                   THEN duplicate_momentmatrix(s, original_n_vars, n_vars, block_index)
                   ELSE add_new_momentmatrix(s, n_vars, block_index))


\* ------------------------------------------------------------- the structure
\* len(monomials[0]) for a two-basis entry, len(monomials) otherwise
SetSize(monomials) == Len(monomials.A)

\* nc_utils.check_simple_substitution: None for (0, 0), else Some(<<monomial,
\* value>>): the equality is one monomial, with coefficient 1, and a constant
check_simple_substitution(equality) ==
    IF /\ Len(equality) = 2
       /\ \E i \in 1..2 : equality[i].w = One
       /\ \E i \in 1..2 : equality[i].w # One /\ equality[i].c = 1
    THEN LET m == CHOOSE i \in 1..2 : equality[i].w # One
         IN  Some(<<equality[m].w, 0 - equality[3 - m].c>>)
    ELSE None

\* the moment equalities that are not simple substitutions
NotSimple(momentequalities) ==
    SelectSeq(flatten(<<momentequalities>>), LAMBDA e : IsNone(check_simple_substitution(e)))

\* the loop of lines 840-849 over the moment equalities on moment_substitutions
RECURSIVE record_substitutions(_, _)
record_substitutions(subst, momentequalities) ==
    IF Len(momentequalities) = 0 THEN subst
    ELSE LET found(r) ==
                IF IsNone(r) THEN subst
                ELSE [w \in DOMAIN subst \cup {Get(r)[1]} |->
                        IF w = Get(r)[1] THEN Get(r)[2] ELSE subst[w]]
         IN  record_substitutions(found(check_simple_substitution(Head(momentequalities))),
                                  Tail(momentequalities))

\* SdpRelaxation._calculate_block_structure (block_struct=None, no
\* user-given localizing monomials, no bounds, no moment inequalities)
calculate_block_structure(s, inequalities, equalities, momentequalities, extramomentmatrix, removeequalities) ==
    LET moment_sets ==
            IF removeequalities THEN <<>>
            ELSE ConcatAll([i \in 1..Len(NotSimple(momentequalities)) |->
                               << <<One>>, <<One>> >>])
        sizes == [i \in 1..Len(s.monomial_sets) |-> SetSize(s.monomial_sets[i])]
        moment_blocks ==
            (IF IsNone(s.parameters) THEN <<>> ELSE <<0 - Len(Get(s.parameters))>>)
            \o sizes
            \o (IF IsNone(extramomentmatrix) THEN <<>>
                ELSE ConcatAll([e \in 1..Len(Get(extramomentmatrix)) |-> sizes]))
        n_inequalities == IF IsNone(inequalities) THEN 0 ELSE Len(Get(inequalities))
        constraints == IF removeequalities THEN flatten(<<inequalities>>)
                       ELSE flatten(<<inequalities, equalities>>)
        ineq_order(k) == ncdegree(constraints[k])
        localizing(k) ==
            LocalizingMonomials(s, IF s.level = -1 THEN 0
                                   ELSE (2 * s.level - ineq_order(k)) \div 2)
        sets == ConcatAll([k \in 1..Len(constraints) |->
                    IF k - 1 >= n_inequalities THEN <<localizing(k), localizing(k)>>
                    ELSE <<localizing(k)>>])
        degree_warning == \E k \in 1..Len(constraints) : ineq_order(k) > 2 * s.level
    IN  IF s.err # NoErr THEN s
        ELSE IF Len(constraints) > 0 /\ Len(s.monomial_sets) = 0
        THEN Raise([s EXCEPT !.block_struct = moment_blocks], "IndexError")
        ELSE [s EXCEPT
                !.block_struct = moment_blocks
                    \o [i \in 1..Len(sets) |-> Len(sets[i])]
                    \o [i \in 1..Len(moment_sets) |-> 1],
                !.moment_substitutions =
                    record_substitutions(@, flatten(<<momentequalities>>)),
                !.complex_matrix =
                    IF \E k \in 1..Len(constraints) : iscomplex(constraints[k])
                    THEN TRUE ELSE @,
                !.localizing_monomial_sets = Some(sets \o moment_sets),
                !.warnings = IF degree_warning /\ s.verbose > 0 THEN @ + 1 ELSE @]

\* SdpRelaxation.__generate_monomial_sets; extramonomials is None or
\* Some([nested, flat, sets]): a list of monomials (flat) or a list of lists
NotFollowed == "not followed: get_all_monomials at a level below -1"

\* SdpRelaxation.__generate_monomial_sets
generate_monomial_sets(s, extramonomials) ==
    LET Flat(ms) == [pair |-> FALSE, A |-> ms, B |-> <<>>]
        e == Get(extramonomials)
    IN  IF s.err # NoErr THEN s
        ELSE IF s.level = -1
        THEN IF IsNone(extramonomials) \/ (~e.nested /\ Len(e.flat) = 0)
                \/ (e.nested /\ Len(e.sets) = 0)
             THEN Raise(s, "Exception: level -1 without monomials")
             ELSE IF e.nested THEN [s EXCEPT !.monomial_sets = e.sets]
             ELSE [s EXCEPT !.monomial_sets = Append(@, Flat(e.flat))]
        \* get_all_monomials is not in the source: what it returns at a level
        \* below -1 is not modelled, and the build is followed no further
        ELSE IF s.level < -1 THEN Raise(s, NotFollowed)
        ELSE IF ~IsNone(extramonomials) /\ e.nested /\ Len(e.sets) > 0
        THEN [s EXCEPT !.monomial_sets =
                Append(@, Flat(get_all_monomials(s.variables, Some(e.sets[1].A),
                                                 s.substitutions, s.level)))
                \o Tail(e.sets)]
        ELSE [s EXCEPT !.monomial_sets =
                Append(@, Flat(get_all_monomials(s.variables,
                        IF IsNone(extramonomials) THEN None ELSE Some(e.flat),
                        s.substitutions, s.level)))]

\* SdpRelaxation._estimate_n_vars
estimate_n_vars(s) ==
    LET per == [i \in 1..Len(s.monomial_sets) |->
                   LET n == SetSize(s.monomial_sets[i])
                   IN  (n * (n + 1)) \div 2 - (IF s.normalized THEN 1 ELSE 0)]
    IN  IF s.err # NoErr THEN s
        ELSE [s EXCEPT !.n_vars = (IF IsNone(s.parameters) THEN 0
                                   ELSE Len(Get(s.parameters))) + SumSeq(per),
                       !.n_vars_half = FALSE]

\* the estimate for the extra moment matrices (lines 1264-1273); n_vars is
\* n_vars + 1/2 when n_vars_half holds
RECURSIVE estimate_extra(_, _)
estimate_extra(s, extramomentmatrices) ==
    IF Len(extramomentmatrices) = 0 \/ s.err # NoErr THEN s
    ELSE LET parameters == Head(extramomentmatrices)
             copy == \E i \in 1..Len(parameters) : parameters[i] = "copy"
             sq == s.block_struct[1] * s.block_struct[1]
             s1 == IF copy
                   THEN [s EXCEPT !.n_vars = 2 * @ + 1 + (IF s.n_vars_half THEN 1 ELSE 0),
                                  !.n_vars_half = FALSE]
                   ELSE IF sq % 2 = 0 THEN [s EXCEPT !.n_vars = @ + sq \div 2]
                   ELSE [s EXCEPT !.n_vars = @ + sq \div 2 + (IF s.n_vars_half THEN 1 ELSE 0),
                                  !.n_vars_half = ~@]
         IN  estimate_extra(s1, Tail(extramomentmatrices))

\* an allocation with one row too many
allocate_F_extra_row(s) ==
    IF s.err # NoErr THEN s
    ELSE [s EXCEPT !.F_struct =
            lil_matrix(SumSeq([i \in 1..Len(s.block_struct) |->
                                  s.block_struct[i] * s.block_struct[i]]) + 1,
                       s.n_vars + 1)]

\* the allocation of F_struct (lines 1278-1279): the number of columns is
\* the integer part of the estimate, plus one
allocate_F(s) ==
    IF s.err # NoErr THEN s
    ELSE [s EXCEPT !.F_struct =
            lil_matrix(SumSeq([i \in 1..Len(s.block_struct) |->
                                  s.block_struct[i] * s.block_struct[i]]),
                       s.n_vars + 1)]

\* SdpRelaxation.__add_parameters: [s, n, block_index]
RECURSIVE add_parameters_loop(_, _)
add_parameters_loop(g, parameters) ==
    IF Len(parameters) = 0 \/ g.s.err # NoErr THEN g
    ELSE LET new_n_vars == g.n + 1
             s1 == [g.s EXCEPT !.monomial_index =
                        (<<Head(parameters)>> :> new_n_vars) @@
                        [w \in DOMAIN @ \ {<<Head(parameters)>>} |-> @[w]]]
         IN  add_parameters_loop([s |-> F_set(s1, new_n_vars - 1, new_n_vars, 1),
                                  n |-> new_n_vars, block_index |-> 1],
                                 Tail(parameters))

add_parameters(s) ==
    IF IsNone(s.parameters) \/ s.err # NoErr THEN [s |-> s, n |-> 0, block_index |-> 0]
    ELSE add_parameters_loop([s |-> s, n |-> 0, block_index |-> 1], Get(s.parameters))

\* a wipe that starts at the first row of F
wipe_from_first_row(s) ==
    IF s.err # NoErr THEN s
    ELSE IF s.constraint_starting_block > Len(s.block_struct) THEN Raise(s, "IndexError")
    ELSE IF s.F_struct.none THEN Raise(s, "AttributeError")
    ELSE [s EXCEPT !.F_struct.data = {}]

\* SdpRelaxation.__wipe_F_struct_from_constraints
wipe_F_struct_from_constraints(s) ==
    IF s.err # NoErr THEN s
    ELSE IF s.constraint_starting_block > Len(s.block_struct) THEN Raise(s, "IndexError")
    ELSE IF s.F_struct.none THEN Raise(s, "AttributeError")
    ELSE LET row_offset == RowOffset(s.block_struct, s.constraint_starting_block)
         IN  [s EXCEPT !.F_struct.data = {e \in @ : e[1] < row_offset}]

\* str() of an argument of process_constraints
StrList(o) == IF IsNone(o) THEN [t |-> "None", l |-> <<>>] ELSE [t |-> "list", l |-> Get(o)]
StrBool(b) == [t |-> IF b THEN "True" ELSE "False", l |-> <<>>]

\* hash(frozenset((str(inequalities), ..., str(removeequalities)))): the set
\* of the six strings; bounds and momentinequalities are None
ConstraintsHash(inequalities, equalities, momentequalities, removeequalities) ==
    {StrList(inequalities), StrList(equalities), StrList(None), StrList(None),
     StrList(momentequalities), StrBool(removeequalities)}

\* the constraints list of lines 958-985
ConstraintList(inequalities, equalities, momentequalities, removeequalities) ==
    flatten(<<inequalities>>) \o
    (IF ~(removeequalities \/ IsNone(equalities))
     THEN ConcatAll([i \in 1..Len(Get(equalities)) |->
                        <<Get(equalities)[i], Neg(Get(equalities)[i])>>])
     ELSE <<>>) \o
    (IF ~removeequalities
     THEN ConcatAll([i \in 1..Len(NotSimple(momentequalities)) |->
                        <<NotSimple(momentequalities)[i],
                          Neg(NotSimple(momentequalities)[i])>>])
     ELSE <<>>)

\* reduced_moment_equalities of lines 971-989
ReducedMomentEqualities(momentequalities, removeequalities) ==
    IF removeequalities /\ Len(NotSimple(momentequalities)) > 0
    THEN Some(NotSimple(momentequalities)) ELSE None

\* process_constraints without the comparison of the hash
process_constraints_unguarded(s, inequalities, equalities, momentequalities, block_index, removeequalities) ==
    LET h == ConstraintsHash(inequalities, equalities, momentequalities, removeequalities)
        guarded == block_index = 0 \/ block_index = s.constraint_starting_block
        s1 == [s EXCEPT !.constraints_hash = IF guarded THEN h ELSE @,
                        !.status = "unsolved"]
        bi == IF block_index = 0 THEN s.constraint_starting_block ELSE block_index
        listed(s2) ==
            IF s2.err # NoErr THEN s2
            ELSE [s2 EXCEPT !.constraints =
                      ConstraintList(inequalities, equalities, momentequalities,
                                     removeequalities)]
        reduced(s4) ==
            IF removeequalities
            THEN remove_equalities(s4, equalities,
                                   ReducedMomentEqualities(momentequalities, TRUE))
            ELSE s4
    IN  IF s.err # NoErr THEN s
        ELSE reduced(process_inequalities(
                        listed(IF block_index = 0 THEN wipe_F_struct_from_constraints(s1)
                               ELSE s1),
                        bi, bi, 1))

\* SdpRelaxation.process_constraints
process_constraints(s, inequalities, equalities, momentequalities, block_index, removeequalities) ==
    LET h == ConstraintsHash(inequalities, equalities, momentequalities, removeequalities)
        guarded == block_index = 0 \/ block_index = s.constraint_starting_block
        s1 == [s EXCEPT !.constraints_hash = IF guarded THEN h ELSE @,
                        !.status = "unsolved"]
        bi == IF block_index = 0 THEN s.constraint_starting_block ELSE block_index
        listed(s2) ==
            IF s2.err # NoErr THEN s2
            ELSE [s2 EXCEPT !.constraints =
                      ConstraintList(inequalities, equalities, momentequalities,
                                     removeequalities)]
        reduced(s4) ==
            IF removeequalities
            THEN remove_equalities(s4, equalities,
                                   ReducedMomentEqualities(momentequalities, TRUE))
            ELSE s4
    IN  IF s.err # NoErr THEN s
        ELSE IF guarded /\ s.constraints_hash = h THEN s
        ELSE reduced(process_inequalities(
                        listed(IF block_index = 0 THEN wipe_F_struct_from_constraints(s1)
                               ELSE s1),
                        bi, bi, 1))

\* SdpRelaxation.set_objective (extraobjexpr=None)
set_objective(s, objective) ==
    LET stored(f) ==
            IF f.err # NoErr THEN Raise(s, f.err)
            ELSE IF IsNone(objective) THEN [s EXCEPT !.obj_facvar = Tail(f.facvar)]
            ELSE [s EXCEPT !.obj_facvar = Tail(f.facvar), !.constant_term = f.facvar[1]]
    IN  IF s.err # NoErr THEN s
        ELSE stored(get_facvar(s, IF IsNone(objective) THEN <<>>
                                  ELSE simplify_polynomial(Get(objective),
                                                           s.substitutions)))

\* SdpRelaxation.get_relaxation up to the call of process_constraints
\* (lines 1237-1302); a is the record of the arguments
build_moment_matrices(s, a) ==
    LET subs == IF IsNone(a.substitutions) THEN <<>> ELSE Get(a.substitutions)
        extras == IF IsNone(a.extramomentmatrices) THEN <<>>
                  ELSE Get(a.extramomentmatrices)
        s1 == IF s.level < -1 THEN Raise(s, "Exception: invalid level")
              ELSE [s EXCEPT
                     !.level = a.level,
                     !.substitutions = subs,
                     !.pure_substitution_rules =
                        IF \E i \in 1..Len(subs) :
                              ~is_pure_substitution_rule(subs[i].lhs, subs[i].rhs)
                        THEN FALSE ELSE @,
                     !.complex_matrix =
                        IF \E i \in 1..Len(subs) :
                              iscomplex(Mono(subs[i].lhs)) \/ iscomplex(subs[i].rhs)
                        THEN TRUE ELSE @]
        sets_generated(s2) ==
            IF s2.err # NoErr THEN s2
            ELSE [s2 EXCEPT !.localizing_monomial_sets = None]
        objective_set(s7, block_index) ==
            IF s7.err # NoErr THEN s7
            ELSE [s7 EXCEPT !.constraint_starting_block = block_index]
        extras_added(g3) ==
            objective_set(
                set_objective(IF g3.s.err # NoErr THEN g3.s
                              ELSE [g3.s EXCEPT !.n_vars = g3.n, !.n_vars_half = FALSE],
                              a.objective),
                g3.block_index)
        blocks_generated(g2) ==
            extras_added(IF IsNone(a.extramomentmatrices) THEN g2
                         ELSE add_extra_momentmatrices(g2.s, extras, g2.n, g2.n,
                                                       g2.block_index))
        parameters_added(g1) ==
            blocks_generated(
                generate_all_moment_matrix_blocks(g1.s, g1.n, g1.block_index, 1))
    IN  parameters_added(add_parameters(allocate_F(estimate_extra(estimate_n_vars(
            calculate_block_structure(
                sets_generated(generate_monomial_sets(s1, a.extramonomials)),
                a.inequalities, a.equalities, a.momentequalities,
                a.extramomentmatrices, a.removeequalities)), extras))))

\* SdpRelaxation.get_relaxation: [s, reached], reached when the call got as
\* far as process_constraints
get_relaxation(s, a) ==
    LET built(b) ==
            [s |-> process_constraints(b, a.inequalities, a.equalities, a.momentequalities,
                                       b.constraint_starting_block, a.removeequalities),
             reached |-> b.err = NoErr]
    IN  built(build_moment_matrices(s, a))

\* a solve that does not look at F_struct
solve_unchecked(s) == [s |-> s, delegated |-> TRUE]

\* Relaxation.solve: [s, delegated], delegated when solve_sdp is called
solve(s) ==
    IF s.F_struct.none
    THEN [s |-> Raise(s, "Exception: relaxation is not generated yet"),
          delegated |-> FALSE]
    ELSE [s |-> s, delegated |-> TRUE]

\* a call starts with no exception pending and no warning printed
Enter(s) == [s EXCEPT !.err = NoErr, !.warnings = 0]

\* -------------------------------------------------------------- the inputs
PolyX == Mono(<<"X">>)
PolyY == Mono(<<"Y">>)
PolyXm1 == <<Term(1, <<"X">>), Term(-1, One)>>
PolyXp1 == <<Term(1, <<"X">>), Term(1, One)>>
ObjectiveArgs == {None, Some(PolyXp1)}
PolyXXY == Mono(<<"X", "X", "Y">>)
PolyXXYm1 == <<Term(1, <<"X", "X", "Y">>), Term(-1, One)>>
\* X + X**2*Y: no moment matrix of level 1 holds X**2*Y or its adjoint
PolyXpXXY == <<Term(1, <<"X">>), Term(1, <<"X", "X", "Y">>)>>

\* the substitution X**2 -> 1
SubsXX == <<[lhs |-> <<"X", "X">>, rhs |-> Mono(One)]>>
SubstitutionArgs == {None, Some(SubsXX)}
\* a rule that is not pure: X*X goes to Y + 1
SubsSum == <<[lhs |-> <<"X", "X">>, rhs |-> <<Term(1, <<"Y">>), Term(1, One)>>]>>
BuildSubstitutionArgs == SubstitutionArgs \cup {Some(SubsSum)}
\* the moment equalities <Y> = 2, a simple substitution, and <X> + <Y> = 3
PolyYm2 == <<Term(1, <<"Y">>), Term(-2, One)>>
PolyYm3 == <<Term(1, <<"Y">>), Term(-3, One)>>
PolyXpYm3 == <<Term(1, <<"X">>), Term(1, <<"Y">>), Term(-3, One)>>

MomentConstraint(i, e, m, r) ==
    [inequalities |-> i, equalities |-> e, momentequalities |-> m, removeequalities |-> r]
Constraint(i, e, r) == MomentConstraint(i, e, None, r)
\* the constraint packages of the life cycle
ConstraintArgs ==
    { Constraint(None, None, FALSE),
      Constraint(Some(<<PolyX>>), None, FALSE),
      Constraint(Some(<<PolyX, PolyY>>), None, FALSE),
      Constraint(None, Some(<<PolyXm1>>), FALSE),
      Constraint(None, Some(<<PolyXm1>>), TRUE),
      Constraint(Some(<<PolyXpXXY>>), None, FALSE),
      Constraint(None, Some(<<PolyX>>), FALSE),
      MomentConstraint(None, None, Some(<<PolyYm2>>), FALSE),
      MomentConstraint(None, None, Some(<<PolyYm3>>), FALSE) }
\* the constraint packages of a single build: two of them have a constraint
\* of degree 3
BuildConstraintArgs ==
    { Constraint(None, None, FALSE),
      Constraint(Some(<<PolyX>>), None, FALSE),
      Constraint(None, Some(<<PolyXm1>>), FALSE),
      Constraint(None, Some(<<PolyXm1>>), TRUE),
      Constraint(Some(<<PolyXXY>>), None, FALSE),
      Constraint(None, Some(<<PolyXXYm1>>), TRUE),
      MomentConstraint(None, None, Some(<<PolyYm2>>), FALSE),
      MomentConstraint(None, None, Some(<<PolyYm2, PolyXpYm3>>), FALSE),
      MomentConstraint(None, None, Some(<<PolyYm2, PolyXpYm3>>), TRUE),
      MomentConstraint(Some(<<PolyX>>), None, Some(<<PolyXpYm3, PolyYm2>>), FALSE) }

FlatSet(ms) == [pair |-> FALSE, A |-> ms, B |-> <<>>]
PairSet(A, B) == [pair |-> TRUE, A |-> A, B |-> B]
BasisXY == <<One, <<"X">>, <<"Y">>, <<"X", "Y">>>>
\* level 1 on X, Y; level 1 with the extra monomial YX; level -1 with the two
\* bases [1, X], [1, Y]; level -1 with the two bases followed by the basis
\* [1, X, Y, XY]
BasisArgs ==
    { [level |-> 1, extramonomials |-> None],
      [level |-> 1,
       extramonomials |-> Some([nested |-> FALSE, flat |-> <<<<"Y", "X">>>>,
                                sets |-> <<>>])],
      [level |-> -1,
       extramonomials |-> Some([nested |-> TRUE, flat |-> <<>>,
            sets |-> <<PairSet(<<One, <<"X">>>>, <<One, <<"Y">>>>)>>])],
      [level |-> -1,
       extramonomials |-> Some([nested |-> TRUE, flat |-> <<>>,
            sets |-> <<PairSet(<<One, <<"X">>>>, <<One, <<"Y">>>>),
                       FlatSet(BasisXY)>>])] }

RECURSIVE SeqsUpTo(_, _)
SeqsUpTo(S, n) ==
    IF n = 0 THEN {<<>>}
    ELSE LET shorter == SeqsUpTo(S, n - 1)
         IN  shorter \cup {Append(q, x) : q \in shorter, x \in S}

\* None, or a list of at most MaxExtra requests, each ["copy"] or []
ExtraArgs == {None} \cup {Some(q) : q \in SeqsUpTo({<<"copy">>, <<>>}, MaxExtra) \ {<<>>}}

Args(level, objective, c, substitutions, extramonomials, extras, block_index) ==
    [ level |-> level, objective |-> objective,
      inequalities |-> c.inequalities, equalities |-> c.equalities,
      momentequalities |-> c.momentequalities,
      removeequalities |-> c.removeequalities,
      substitutions |-> substitutions, extramonomials |-> extramonomials,
      extramomentmatrices |-> extras, block_index |-> block_index ]

NoArgs == Args(0, None, Constraint(None, None, FALSE), None, None, None, 0)

\* the six arguments a call of process_constraints is compared by
SixOf(a) ==
    MomentConstraint(a.inequalities, a.equalities, a.momentequalities, a.removeequalities)

ParameterArgs == {None, Some(<<ParamSym>>)}

\* --------------------------------------------------------- the life cycle
\* the record of a call: pc_now holds the six arguments of the latest call of
\* process_constraints, hashed_now those of the latest one made with
\* block_index 0 or constraint_starting_block, built those of the latest
\* get_relaxation that generated its moment matrices
Called(op, a, delegated, reached, guarded) ==
    [ op |-> op, args |-> a, before |-> self, delegated |-> delegated,
      pc_before |-> last.pc_now,
      pc_now |-> IF reached THEN Some(SixOf(a)) ELSE last.pc_now,
      hashed_before |-> last.hashed_now,
      hashed_now |-> IF reached /\ guarded THEN Some(SixOf(a)) ELSE last.hashed_now,
      built |-> IF reached /\ op = "get_relaxation" THEN Some(SixOf(a)) ELSE last.built ]

NotCalled ==
    [ op |-> "init", args |-> NoArgs, before |-> SdpRelaxation_init(None, 0, TRUE, FALSE),
      delegated |-> FALSE, pc_before |-> None, pc_now |-> None,
      hashed_before |-> None, hashed_now |-> None, built |-> None ]

Init ==
    /\ \E parameters \in ParameterArgs, normalized \in BOOLEAN :
          self = SdpRelaxation_init(parameters, 0, normalized, FALSE)
    /\ last = [NotCalled EXCEPT !.before = self]
    /\ ops = 0

GetRelaxation ==
    /\ ops < MaxOps
    /\ \E c \in ConstraintArgs, substitutions \in SubstitutionArgs :
          LET a == Args(1, None, c, substitutions, None, None, 0)
              returned(r) ==
                  /\ self' = r.s
                  /\ last' = Called("get_relaxation", a, FALSE, r.reached, TRUE)
          IN  returned(get_relaxation(Enter(self), a))
    /\ ops' = ops + 1

ProcessConstraints ==
    /\ ops < MaxOps
    /\ \E c \in ConstraintArgs,
          block_index \in {0, self.constraint_starting_block,
                           self.constraint_starting_block + 1} :
          LET a == Args(0, None, c, None, None, None, block_index)
          IN  /\ self' = process_constraints(Enter(self), c.inequalities, c.equalities,
                                             c.momentequalities,
                                             block_index, c.removeequalities)
              /\ last' = Called("process_constraints", a, FALSE, TRUE,
                                 block_index \in {0, self.constraint_starting_block})
    /\ ops' = ops + 1

Solve ==
    /\ ops < MaxOps
    /\ LET returned(r) ==
               /\ self' = r.s
               /\ last' = Called("solve", NoArgs, r.delegated, FALSE, FALSE)
       IN  returned(solve(Enter(self)))
    /\ ops' = ops + 1

Next == GetRelaxation \/ ProcessConstraints \/ Solve

Spec == Init /\ [][Next]_vars

\* ------------------------------------------------------------ one build
InitBuild ==
    /\ \E parameters \in ParameterArgs, normalized \in BOOLEAN, parallel \in BOOLEAN,
          verbose \in {0, 1} :
          self = SdpRelaxation_init(parameters, verbose, normalized, parallel)
    /\ last = [NotCalled EXCEPT !.before = self]
    /\ ops = 0

Build ==
    /\ ops = 0
    /\ \E c \in BuildConstraintArgs, substitutions \in BuildSubstitutionArgs,
          basis \in BasisArgs, extras \in ExtraArgs, objective \in ObjectiveArgs :
          LET a == Args(basis.level, objective, c, substitutions, basis.extramonomials,
                        extras, 0)
              returned(r) ==
                  /\ self' = r.s
                  /\ last' = Called("get_relaxation", a, FALSE, r.reached, TRUE)
          IN  returned(get_relaxation(Enter(self), a))
    /\ ops' = ops + 1

NextBuild == Build

SpecBuild == InitBuild /\ [][NextBuild]_vars

\* ------------------------------------------ builds and objectives in turn
\* calls of get_relaxation, one after another, at the levels 1, -1 and -2,
\* and calls of set_objective
LevelArgs == BasisArgs \cup {[level |-> -2, extramonomials |-> None]}

GetRelaxationAtLevel ==
    /\ ops < MaxOps
    /\ \E c \in ConstraintArgs, basis \in LevelArgs, objective \in ObjectiveArgs :
          LET a == Args(basis.level, objective, c, None, basis.extramonomials, None, 0)
              returned(r) ==
                  /\ self' = r.s
                  /\ last' = Called("get_relaxation", a, FALSE, r.reached, TRUE)
          IN  returned(get_relaxation(Enter(self), a))
    /\ ops' = ops + 1

SetObjective ==
    /\ ops < MaxOps
    /\ \E objective \in ObjectiveArgs :
          /\ self' = set_objective(Enter(self), objective)
          /\ last' = Called("set_objective",
                            [NoArgs EXCEPT !.objective = objective], FALSE, FALSE, FALSE)
    /\ ops' = ops + 1

NextCalls == GetRelaxationAtLevel \/ SetObjective

SpecCalls == Init /\ [][NextCalls]_vars

\* the elimination of equalities stays within the modelled cases
Modelled == self.err # "outside the modelled eliminations"

\* ================================================================ the claims
Built == last.op = "get_relaxation" /\ self.err = NoErr
SumOfSquares(bs) == SumSeq([i \in 1..Len(bs) |-> bs[i] * bs[i]])

\* C1 (as stated): after every successful get_relaxation the number of rows
\* of F is the sum of size**2 over the positive entries of block_struct plus
\* the sum of size over its negative entries.
C1_RowsAsStated ==
    Built =>
        self.F_struct.nrows =
            SumOfSquares(SelectSeq(self.block_struct, LAMBDA b : b > 0))
            + SumSeq(SelectSeq(self.block_struct, LAMBDA b : b < 0))

\* C1 (amended): after every successful get_relaxation the number of rows of
\* F is the sum of size**2 over all the entries of block_struct, the negative
\* entry of the parameter block included.
C1_Rows == Built => self.F_struct.nrows = SumOfSquares(self.block_struct)

\* a successful build with a parameter, an extra moment matrix and constraints
C1_Witness ==
    /\ Built
    /\ ~IsNone(self.parameters)
    /\ ~IsNone(last.args.extramomentmatrices)
    /\ ~IsNone(last.args.inequalities)
    /\ self.block_struct[1] < 0
    /\ self.F_struct.nrows > 0

\* C2: solve raises and does not call the solver when F is unset; it calls
\* the solver once F is set.
C2_SolveNeedsF ==
    last.op = "solve" =>
        IF last.before.F_struct.none
        THEN self.err # NoErr /\ ~last.delegated
        ELSE self.err = NoErr /\ last.delegated

\* solve was called on an object whose F is unset, and raised
C2_Witness ==
    last.op = "solve" /\ last.before.F_struct.none /\ self.err # NoErr /\ ~last.delegated

SameRelaxation(s, t) ==
    /\ s.n_vars <= t.n_vars
    /\ s.monomial_index = t.monomial_index
    /\ s.F_struct = t.F_struct

\* C3 (as stated): a call of process_constraints with the six arguments of the
\* previous call does not increase n_vars, leaves monomial_index and F as
\* they were.
C3_RepeatAsStated ==
    (last.op = "process_constraints" /\ last.pc_before = Some(SixOf(last.args)))
        => SameRelaxation(self, last.before)

\* C3 (amended): a call of process_constraints made with block_index 0 or
\* constraint_starting_block, with the six arguments of the previous call
\* made with such a block_index (the call inside get_relaxation included),
\* does not increase n_vars and leaves monomial_index and F as they were.
C3_Repeat ==
    (/\ last.op = "process_constraints"
     /\ last.args.block_index \in {0, last.before.constraint_starting_block}
     /\ last.hashed_before = Some(SixOf(last.args)))
        => SameRelaxation(self, last.before)

\* a built relaxation with constraint rows on which the call was repeated
C3_Witness ==
    /\ last.op = "process_constraints"
    /\ last.args.block_index \in {0, last.before.constraint_starting_block}
    /\ last.hashed_before = Some(SixOf(last.args))
    /\ ~IsNone(last.args.inequalities)
    /\ ~last.before.F_struct.none
    /\ \E e \in last.before.F_struct.data :
          e[1] >= RowOffset(last.before.block_struct,
                            last.before.constraint_starting_block)

\* the first block of the moment matrix: its index in block_struct, the rows
\* of its cells
FirstMomentBlock == IF IsNone(self.parameters) THEN 0 ELSE 1
FirstBasis == self.monomial_sets[1]
FirstBasisB == IF FirstBasis.pair THEN FirstBasis.B ELSE <<One>>
FirstCells == Elements(SequentialCells(Len(FirstBasis.A), Len(FirstBasisB)))
RowOfCell(c) ==
    RowOffset(self.block_struct, FirstMomentBlock)
    + CellRow(0, c[1], c[2], Len(FirstBasis.A) * Len(FirstBasisB), c[3], c[4],
              Len(FirstBasisB))
CanonicalOfCell(c) ==
    apply_substitutions(CellMonomial(FirstBasis.A, FirstBasisB, FALSE,
                                     c[1], c[2], c[3], c[4]),
                        self.substitutions, self.pure_substitution_rules)
ColumnsOfRow(r) == {e[1] : e \in RowEntries(self.F_struct, r)}

\* C4: two distinct cells of the moment matrix whose product is the same
\* canonical monomial are written to F under the same column.
C4_SameColumn ==
    (Built /\ ~last.args.removeequalities) =>
        \A c, d \in FirstCells :
            (c # d /\ CanonicalOfCell(c) = CanonicalOfCell(d)
                   /\ Len(CanonicalOfCell(c)) = 1)
                => /\ ColumnsOfRow(RowOfCell(c)) # {}
                   /\ ColumnsOfRow(RowOfCell(c)) = ColumnsOfRow(RowOfCell(d))

\* C5: after the moment matrix of a normalized relaxation is generated,
\* monomial_index is a bijection between the monomials seen and the ids
\* 1..n_vars.
C5_Bijection ==
    (/\ Built
     /\ self.normalized
     /\ ~last.args.removeequalities
     /\ IsNone(last.args.extramomentmatrices)) =>
        LET idx == self.monomial_index
        IN  /\ \A v, w \in DOMAIN idx : idx[v] = idx[w] => v = w
            /\ {idx[w] : w \in DOMAIN idx} = 1..self.n_vars

\* C6: for the same bases, substitutions and flags, the parallel mode numbers
\* the variables as the sequential mode does.
C6_ParallelNumbering ==
    (Built /\ self.parallel) =>
        LET same(sequential) ==
                sequential.err = NoErr =>
                    /\ self.monomial_index = sequential.monomial_index
                    /\ self.n_vars = sequential.n_vars
        IN  same(get_relaxation(Enter([last.before EXCEPT !.parallel = FALSE]),
                                last.args).s)

\* C7: the monomial index, the variable ids, block_struct and F that a
\* get_relaxation call produces are those it produces on a new object.
C7_FreshPerBuild ==
    Built =>
        LET same(fresh) ==
                /\ fresh.err = NoErr
                /\ self.monomial_index = fresh.monomial_index
                /\ self.n_vars = fresh.n_vars
                /\ self.block_struct = fresh.block_struct
                /\ self.F_struct = fresh.F_struct
        IN  same(get_relaxation(SdpRelaxation_init(self.parameters, self.verbose,
                                                   self.normalized, self.parallel),
                                last.args).s)

\* the rows of F before the blocks of the constraints, as the object was
\* before the call
MomentRows ==
    0..(RowOffset(last.before.block_struct, last.before.constraint_starting_block) - 1)
MomentRowsKept ==
    \A r \in MomentRows :
        RowEntries(self.F_struct, r) = RowEntries(last.before.F_struct, r)
Rerun ==
    /\ last.op = "process_constraints"
    /\ last.args.block_index = 0
    /\ ~last.before.F_struct.none

\* C8 (as stated): process_constraints with block_index 0 on a built
\* relaxation, with or without removeequalities, leaves every row of the
\* moment matrix as it was.
C8_FrameAsStated == Rerun => MomentRowsKept

\* C8 (amended): process_constraints with block_index 0 and removeequalities
\* false on a built relaxation changes only rows of F at or after the blocks
\* of the constraints; every row of the moment matrix is left as it was.
C8_Frame == (Rerun /\ ~last.args.removeequalities) => MomentRowsKept

\* new constraints were processed without removeequalities: F changed, and
\* the moment matrix has entries
C8_Witness ==
    /\ Rerun
    /\ ~last.args.removeequalities
    /\ self.err = NoErr
    /\ self.F_struct # last.before.F_struct
    /\ \E e \in last.before.F_struct.data : e[1] \in MomentRows

\* C9: a "copy" extra moment matrix has the size of the principal block and
\* the entries of the principal block, under the same columns.
C9_CopySameIds ==
    (/\ Built
     /\ ~last.args.removeequalities
     /\ ~IsNone(last.args.extramomentmatrices)
     /\ Head(Get(last.args.extramomentmatrices)) = <<"copy">>) =>
        LET principal == FirstMomentBlock
            copy == FirstMomentBlock + Len(self.monomial_sets)
            size == self.block_struct[principal + 1]
        IN  /\ self.block_struct[copy + 1] = size
            /\ \A r \in 0..(size * size - 1) :
                  RowEntries(self.F_struct, RowOffset(self.block_struct, copy) + r)
                  = RowEntries(self.F_struct, RowOffset(self.block_struct, principal) + r)

\* C10: a constraint whose degree exceeds 2*level does not abort the build,
\* and the degree warning is reported once.
C10_DegreeWarning ==
    (/\ last.op = "get_relaxation"
     /\ \E q \in Elements(flatten(<<last.args.inequalities, last.args.equalities>>)) :
            ncdegree(q) > 2 * last.args.level) =>
        self.err = NoErr /\ self.warnings = 1

\* the number of constraints of each type, and their degrees
Counts(c) ==
    [ inequalities |-> Len(flatten(<<c.inequalities>>)),
      equalities |-> Len(flatten(<<c.equalities>>)),
      degrees |-> [i \in 1..Len(flatten(<<c.inequalities, c.equalities>>)) |->
                      ncdegree(flatten(<<c.inequalities, c.equalities>>)[i])] ]

\* C11: process_constraints on a built relaxation, with constraints whose
\* number per type or whose degrees differ from those of the build, raises
\* and leaves F, block_struct, n_vars and monomial_index as they were.
C11_MismatchRefused ==
    (/\ last.op = "process_constraints"
     /\ ~IsNone(last.built)
     /\ Counts(SixOf(last.args)) # Counts(Get(last.built))) =>
        /\ self.err # NoErr
        /\ self.F_struct = last.before.F_struct
        /\ self.block_struct = last.before.block_struct
        /\ self.n_vars = last.before.n_vars
        /\ self.monomial_index = last.before.monomial_index

\* ============================================================== sdpa_utils
\* lines of a solver output file in one read
MaxLines == 2

\* a line of the output file, by what read_sdpa_out looks for in it: the key
\* it holds, the number after the key, the text of the phase
OutLine(kind, value, text) == [kind |-> kind, value |-> value, text |-> text]
PhaseTexts == {"pdOPT", "pdINF", "pUNBD", "pdFEAS", "noINFO"}
OutLines ==
    { OutLine("objValPrimal", 2, ""), OutLine("objValDual", 3, ""),
      OutLine("xMat =", 0, ""), OutLine("yMat =", 0, "") }
    \cup {OutLine("phase.value", 0, p) : p \in PhaseTexts}

\* text.find(sub) > -1 on the phase texts
Contains(text, sub) ==
    <<text, sub>> \in { <<"pdOPT", "pdOPT">>, <<"pdINF", "INF">>, <<"noINFO", "INF">>,
                        <<"pUNBD", "UNBD">> }

\* the local variables of read_sdpa_out, None while unbound
Unbound ==
    [primal |-> None, dual |-> None, x_mat |-> None, y_mat |-> None, status_string |-> None]

\* a result without values
NoSolution ==
    [primal |-> None, dual |-> None, x_mat |-> None, y_mat |-> None, status |-> None]

\* the body of the loop over the lines (lines 63-81); a solution matrix is
\* read with its header
read_line(env, line, solutionmatrix) ==
    [env EXCEPT
        !.primal = IF line.kind = "objValPrimal" THEN Some(line.value) ELSE @,
        !.dual = IF line.kind = "objValDual" THEN Some(line.value) ELSE @,
        !.x_mat = IF solutionmatrix /\ line.kind = "xMat =" THEN Some("xMat") ELSE @,
        !.y_mat = IF solutionmatrix /\ line.kind = "yMat =" THEN Some("yMat") ELSE @,
        !.status_string =
            IF line.kind = "phase.value"
            THEN Some(IF Contains(line.text, "pdOPT") THEN "optimal"
                      ELSE IF Contains(line.text, "INF") THEN "infeasible"
                      ELSE IF Contains(line.text, "UNBD") THEN "unbounded"
                      ELSE "unknown")
            ELSE @]

RECURSIVE read_lines(_, _, _)
read_lines(env, lines, solutionmatrix) ==
    IF Len(lines) = 0 THEN env
    ELSE read_lines(read_line(env, Head(lines), solutionmatrix), Tail(lines),
                    solutionmatrix)

\* the attributes assigned to sdpRelaxation (lines 83-88): the assignments
\* stop at the first local variable that is unbound
store_solution(env) ==
    [ primal |-> env.primal,
      dual |-> IF IsNone(env.primal) THEN None ELSE env.dual,
      x_mat |-> IF IsNone(env.primal) \/ IsNone(env.dual) THEN None ELSE env.x_mat,
      y_mat |-> IF IsNone(env.primal) \/ IsNone(env.dual) \/ IsNone(env.x_mat) THEN None
                ELSE env.y_mat,
      status |-> IF IsNone(env.primal) \/ IsNone(env.dual) \/ IsNone(env.x_mat)
                    \/ IsNone(env.y_mat) THEN None
                 ELSE env.status_string ]

\* the tuple returned (lines 89-96), None in the places it does not have
return_solution(env, solutionmatrix, status) ==
    [ primal |-> env.primal, dual |-> env.dual,
      x_mat |-> IF solutionmatrix THEN env.x_mat ELSE None,
      y_mat |-> IF solutionmatrix THEN env.y_mat ELSE None,
      status |-> IF status THEN env.status_string ELSE None ]

\* sdpa_utils.read_sdpa_out: [err, ret, stored]; file is None when there is
\* no file of that name, given tells whether sdpRelaxation is not None
read_sdpa_out(file, solutionmatrix, status, given) ==
    LET read(env) ==
            IF given /\ \E f \in DOMAIN env : IsNone(env[f])
            THEN [err |-> "UnboundLocalError", ret |-> NoSolution,
                  stored |-> store_solution(env)]
            ELSE IF \/ IsNone(env.primal) \/ IsNone(env.dual)
                    \/ (solutionmatrix /\ (IsNone(env.x_mat) \/ IsNone(env.y_mat)))
                    \/ (status /\ IsNone(env.status_string))
            THEN [err |-> "UnboundLocalError", ret |-> NoSolution,
                  stored |-> IF given THEN store_solution(env) ELSE NoSolution]
            ELSE [err |-> NoErr, ret |-> return_solution(env, solutionmatrix, status),
                  stored |-> IF given THEN store_solution(env) ELSE NoSolution]
    IN  IF IsNone(file)
        THEN [err |-> "IOError", ret |-> NoSolution, stored |-> NoSolution]
        ELSE read(read_lines(Unbound, Get(file), solutionmatrix))

\* ------------------------------------------------------------- the export
\* the dtype of F_struct is chosen from complex_matrix when F is allocated
\* (sdp_relaxation.py, lines 1274-1279)
dtype(rel) == IF rel.complex_matrix THEN "complex128" ELSE "float64"

\* value.real and value.imag of a stored value Complex(a, b)
Re(v) == ((v + 500) % 1000) - 500
Im(v) == (v - Re(v)) \div 1000

\* the row offsets of the blocks: [0, b1**2, b1**2 + b2**2, ...]
row_offsets_of(block_struct) ==
    [i \in 1..(Len(block_struct) + 1) |->
        SumSeq([b \in 1..(i - 1) |-> block_struct[b] * block_struct[b]])]

\* Python's divmod(a, b), b not zero: the quotient is rounded down
divmod(a, b) ==
    LET q == IF b > 0 THEN a \div b ELSE (0 - a) \div (0 - b)
    IN  <<q, a - b * q>>

\* sdpa_utils.convert_row_to_sdpa_index: [err, block_index, i, j]
convert_row_to_sdpa_index(block_struct, row_offsets, row) ==
    LET block_index ==
            \* bisect_left(row_offsets[1:], row + 1)
            Cardinality({b \in 2..Len(row_offsets) : row_offsets[b] < row + 1})
        located(width, r) ==
            IF width = 0 THEN [err |-> "ZeroDivisionError", block_index |-> 0, i |-> 0, j |-> 0]
            ELSE [err |-> NoErr, block_index |-> block_index,
                  i |-> divmod(r, width)[1], j |-> divmod(r, width)[2]]
    IN  IF block_index >= Len(block_struct)
        THEN [err |-> "IndexError", block_index |-> 0, i |-> 0, j |-> 0]
        ELSE located(block_struct[block_index + 1], row - row_offsets[block_index + 1])

\* the entries of F in the order of the loops of lines 199-204: by row, and
\* in a row by column
EntriesInOrder(F) ==
    ConcatAll([r \in 1..F.nrows |->
        ConcatAll([c \in 1..F.ncols |->
            IF \E e \in F.data : e[1] = r - 1 /\ e[2] = c - 1
            THEN <<<<r - 1, c - 1, F_get(F, r - 1, c - 1)>>>>
            ELSE <<>>])])

\* a line of the coefficient matrices: the list it is appended to, the
\* block, the cell and the value, as they are written
SdpaLine(k, block, i, j, value) ==
    [k |-> k, block |-> block, i |-> i, j |-> j, value |-> value]

\* an export that places the imaginary part symmetrically: b at (j, i+bs)
lines_of_entry_symmetric(rel, row_offsets, e) ==
    LET k == e[2]
        value == IF k = 0 THEN 0 - e[3] ELSE e[3]
        written(at) ==
            IF at.err # NoErr THEN [err |-> at.err, lines |-> <<>>]
            ELSE IF dtype(rel) = "float64"
            THEN [err |-> NoErr,
                  lines |-> <<SdpaLine(k, at.block_index + 1, at.i + 1, at.j + 1, value)>>]
            ELSE LET bs == rel.block_struct[at.block_index + 1]
                 IN  [err |-> NoErr,
                      lines |->
                        (IF Re(value) # 0
                         THEN << SdpaLine(k, at.block_index + 1, at.i + 1, at.j + 1,
                                          Re(value)),
                                 SdpaLine(k, at.block_index + 1, at.i + bs + 1,
                                          at.j + bs + 1, Re(value)) >>
                         ELSE <<>>)
                        \o
                        (IF Im(value) # 0
                         THEN << SdpaLine(k + rel.n_vars, at.block_index + 1, at.i + 1,
                                          at.j + bs + 1, Im(value)),
                                 SdpaLine(k + rel.n_vars, at.block_index + 1, at.j + 1,
                                          at.i + bs + 1, Im(value)) >>
                         ELSE <<>>)]
    IN  written(convert_row_to_sdpa_index(rel.block_struct, row_offsets, e[1]))

\* the lines one entry of F adds (lines 205-228): [err, lines]
lines_of_entry(rel, row_offsets, e) ==
    LET k == e[2]
        value == IF k = 0 THEN 0 - e[3] ELSE e[3]
        written(at) ==
            IF at.err # NoErr THEN [err |-> at.err, lines |-> <<>>]
            ELSE IF dtype(rel) = "float64"
            THEN [err |-> NoErr,
                  lines |-> <<SdpaLine(k, at.block_index + 1, at.i + 1, at.j + 1, value)>>]
            ELSE LET bs == rel.block_struct[at.block_index + 1]
                 IN  [err |-> NoErr,
                      lines |->
                        (IF Re(value) # 0
                         THEN << SdpaLine(k, at.block_index + 1, at.i + 1, at.j + 1,
                                          Re(value)),
                                 SdpaLine(k, at.block_index + 1, at.i + bs + 1,
                                          at.j + bs + 1, Re(value)) >>
                         ELSE <<>>)
                        \o
                        (IF Im(value) # 0
                         THEN << SdpaLine(k + rel.n_vars, at.block_index + 1, at.i + 1,
                                          at.j + bs + 1, Im(value)),
                                 SdpaLine(k + rel.n_vars, at.block_index + 1, at.j + 1,
                                          at.i + bs + 1, 0 - Im(value)) >>
                         ELSE <<>>)]
    IN  written(convert_row_to_sdpa_index(rel.block_struct, row_offsets, e[1]))

\* the loop over the entries: [err, lines]; n_lists is the length of lines
RECURSIVE lines_of_entries(_, _, _, _)
lines_of_entries(rel, row_offsets, entries, n_lists) ==
    IF Len(entries) = 0 THEN [err |-> NoErr, lines |-> <<>>]
    ELSE LET followed(here) ==
                IF here.err # NoErr THEN here
                ELSE IF \E i \in 1..Len(here.lines) : here.lines[i].k >= n_lists
                THEN [err |-> "IndexError", lines |-> <<>>]
                ELSE LET rest == lines_of_entries(rel, row_offsets, Tail(entries), n_lists)
                     IN  [err |-> rest.err,
                          lines |-> IF rest.err # NoErr THEN <<>>
                                    ELSE here.lines \o rest.lines]
         IN  followed(lines_of_entry(rel, row_offsets, Head(entries)))

\* sdpa_utils.write_to_sdpa: [err, file], file is None when nothing was
\* written, else the numbers of the header, the objective and the lines of
\* the coefficient matrices, list by list
write_to_sdpa(rel) ==
    LET multiplier == IF dtype(rel) = "complex128" THEN 2 ELSE 1
        n_lists == multiplier * rel.n_vars + 1
        written(r) ==
            IF r.err # NoErr THEN [err |-> r.err, file |-> None]
            ELSE [err |-> NoErr,
                  file |-> Some(
                    [ n_vars |-> multiplier * rel.n_vars,
                      n_blocks |-> Len(rel.block_struct),
                      block_struct |-> [b \in 1..Len(rel.block_struct) |->
                                           multiplier * rel.block_struct[b]],
                      objective |-> IF multiplier = 2 THEN rel.obj_facvar \o rel.obj_facvar
                                    ELSE rel.obj_facvar,
                      lines |-> ConcatAll([k \in 1..n_lists |->
                                    SelectSeq(r.lines, LAMBDA l : l.k = k - 1)]) ])]
    IN  IF rel.F_struct.none THEN [err |-> "AttributeError", file |-> None]
        ELSE IF rel.n_vars_half THEN [err |-> "TypeError", file |-> None]
        ELSE written(lines_of_entries(rel, row_offsets_of(rel.block_struct),
                                      EntriesInOrder(rel.F_struct), n_lists))

\* ------------------------------------------------------------- the solver
\* sdpa_utils.which: found tells whether the program is an executable file of
\* the path
which(program, found) == IF found THEN Some(program) ELSE None

\* sdpa_utils.detect_sdpa; solverparameters is None or the list of the keys
\* of the dictionary
detect_sdpa(solverparameters, found) ==
    which(IF ~IsNone(solverparameters)
             /\ \E i \in 1..Len(Get(solverparameters)) :
                    Get(solverparameters)[i] = "executable"
          THEN "executable of the parameters" ELSE "sdpa",
          found)

\* sdpa_utils.solve_with_sdpa: [err, ret, called]; found, exit and out are
\* what the system answers: whether the executable is found, the exit code
\* of the solver, and the output file it leaves (None when it leaves none)
solve_with_sdpa(rel, solverparameters, found, exit, out) ==
    LET keys == IF IsNone(solverparameters) THEN <<>> ELSE Get(solverparameters)
        parsed(r) ==
            IF r.err # NoErr THEN [err |-> r.err, ret |-> NoSolution, called |-> TRUE]
            ELSE [err |-> NoErr,
                  ret |-> [r.ret EXCEPT
                            !.primal = Some(Get(@) + rel.constant_term),
                            !.dual = Some(Get(@) + rel.constant_term)],
                  called |-> TRUE]
        written(w) ==
            IF w.err # NoErr THEN [err |-> w.err, ret |-> NoSolution, called |-> FALSE]
            ELSE IF \E i \in 1..Len(keys) : keys[i] \notin {"executable", "paramsfile"}
            THEN [err |-> "Exception: unknown parameter for SDPA", ret |-> NoSolution,
                  called |-> FALSE]
            \* the value call() returns, the exit code, is not looked at
            ELSE parsed(read_sdpa_out(out, TRUE, TRUE, FALSE))
    IN  IF IsNone(detect_sdpa(solverparameters, found))
        THEN [err |-> "OSError", ret |-> NoSolution, called |-> FALSE]
        ELSE written(write_to_sdpa(rel))

\* ------------------------------------------------ the calls of sdpa_utils
\* the substitution X**3 -> I*X: no product of the relaxations below holds
\* X**3, and the rule sets the complex flag of the build
SubsXXX == <<[lhs |-> <<"X", "X", "X">>, rhs |-> <<ImaginaryTerm(<<"X">>)>>]>>

\* the substitution X*Y -> (2 + 3*I)*Y*X
SubsXY ==
    <<[lhs |-> <<"X", "Y">>, rhs |-> <<ComplexTerm(2, 3, <<"Y", "X">>)>>]>>
\* inequalities with coefficients that are not real: (2 + 3*I)*X + 2*I,
\* I*X + 1 - I, 2*X - I
ComplexInequalities ==
    { <<ComplexTerm(2, 3, <<"X">>), ComplexTerm(0, 2, One)>>,
      <<ComplexTerm(0, 1, <<"X">>), ComplexTerm(1, -1, One)>>,
      <<Term(2, <<"X">>), ComplexTerm(0, -1, One)>> }

\* the relaxations handed to sdpa_utils: the object as constructed, the
\* objects built at level 1 with the objective X + 1 and the inequality X,
\* and the objects built with a complex rule or a complex inequality
SdpaRelaxations ==
    {SdpRelaxation_init(None, 0, TRUE, FALSE)} \cup
    { get_relaxation(SdpRelaxation_init(parameters, 0, normalized, FALSE),
                     Args(1, Some(PolyXp1), Constraint(Some(<<PolyX>>), None, FALSE),
                          substitutions, None, None, 0)).s :
        parameters \in ParameterArgs, normalized \in BOOLEAN,
        substitutions \in SubstitutionArgs \cup {Some(SubsXXX)} } \cup
    { get_relaxation(SdpRelaxation_init(None, 0, normalized, FALSE),
                     Args(1, Some(PolyXp1), Constraint(Some(<<inequality>>), None, FALSE),
                          substitutions, None, None, 0)).s :
        normalized \in BOOLEAN, inequality \in {PolyX} \cup ComplexInequalities,
        substitutions \in {None, Some(SubsXY)} }

\* the elements of s at the places m, in their order
Pick(s, m) ==
    LET picked[i \in 0..Len(s)] ==
            IF i = 0 THEN <<>>
            ELSE IF i \in m THEN Append(picked[i - 1], s[i]) ELSE picked[i - 1]
    IN  picked[Len(s)]

\* the output of a run that ended in the phase p, and what is left of it when
\* lines are missing
StandardFile(p) ==
    << OutLine("phase.value", 0, p), OutLine("objValPrimal", 2, ""),
       OutLine("objValDual", 3, ""), OutLine("xMat =", 0, ""), OutLine("yMat =", 0, "") >>
PartsOf(file) == {Pick(file, m) : m \in SUBSET (1..Len(file))}

\* the files read_sdpa_out is called on; None: there is no such file
ReadFiles ==
    {None} \cup {Some(f) : f \in SeqsUpTo(OutLines, MaxLines)}
           \cup {Some(f) : f \in UNION {PartsOf(StandardFile(p)) : p \in PhaseTexts}}
\* the files the solver leaves
SolveFiles ==
    {None} \cup {Some(f) : f \in UNION {PartsOf(StandardFile(p)) : p \in {"pdOPT", "pdINF"}}}

\* None, or the keys of the dictionary of solver parameters
SolverParameterArgs ==
    {None, Some(<<"executable">>), Some(<<"paramsfile">>), Some(<<"maxIteration">>)}

InitSdpa ==
    /\ self \in SdpaRelaxations
    /\ last = [op |-> "init", args |-> <<>>, before |-> self,
               result |-> [err |-> NoErr, ret |-> NoSolution]]
    /\ ops = 0

ReadSdpaOut ==
    /\ ops = 0
    /\ \E file \in ReadFiles, solutionmatrix \in BOOLEAN, status \in BOOLEAN,
          given \in BOOLEAN :
          last' = [op |-> "read_sdpa_out",
                   args |-> [file |-> file, solutionmatrix |-> solutionmatrix,
                             status |-> status, given |-> given],
                   before |-> self,
                   result |-> read_sdpa_out(file, solutionmatrix, status, given)]
    /\ ops' = ops + 1
    /\ UNCHANGED self

SolveWithSdpa ==
    /\ ops = 0
    /\ \E solverparameters \in SolverParameterArgs, found \in BOOLEAN, exit \in {0, 1},
          out \in SolveFiles :
          last' = [op |-> "solve_with_sdpa",
                   args |-> [solverparameters |-> solverparameters, found |-> found,
                             exit |-> exit, out |-> out],
                   before |-> self,
                   result |-> solve_with_sdpa(self, solverparameters, found, exit, out)]
    /\ ops' = ops + 1
    /\ UNCHANGED self

WriteToSdpa ==
    /\ ops = 0
    /\ last' = [op |-> "write_to_sdpa", args |-> <<>>, before |-> self,
                result |-> write_to_sdpa(self)]
    /\ ops' = ops + 1
    /\ UNCHANGED self

NextSdpa == ReadSdpaOut \/ SolveWithSdpa \/ WriteToSdpa

SpecSdpa == InitSdpa /\ [][NextSdpa]_vars

StatusStrings == {"optimal", "infeasible", "unbounded", "unknown"}

\* C12: solve_with_sdpa ends in an error when the executable is not found and
\* when the solver exits with a nonzero code; it returns no values then.
C12_SolverErrorsSurface ==
    (/\ last.op = "solve_with_sdpa"
     /\ (~last.args.found \/ last.args.exit # 0)) =>
        /\ last.result.err # NoErr
        /\ last.result.ret = NoSolution

\* the kinds of the lines of a file
KindsOf(file) == {file[i].kind : i \in 1..Len(file)}

\* C13: on every output file with the objective values (and the matrices,
\* when they are asked for), whatever phase.value lines it has, a call of
\* read_sdpa_out that asks for the status returns one of the four statuses.
C13_StatusOfFour ==
    (/\ last.op = "read_sdpa_out"
     /\ last.args.status
     /\ ~last.args.given
     /\ ~IsNone(last.args.file)
     /\ {"objValPrimal", "objValDual"} \subseteq KindsOf(Get(last.args.file))
     /\ (last.args.solutionmatrix =>
            {"xMat =", "yMat ="} \subseteq KindsOf(Get(last.args.file)))) =>
        /\ last.result.err = NoErr
        /\ ~IsNone(last.result.ret.status)
        /\ Get(last.result.ret.status) \in StatusStrings

\* the value of a stored entry as the format writes it: the entries of the
\* constant column change sign (line 207-208)
WrittenValue(e) == IF e[2] = 0 THEN 0 - e[3] ELSE e[3]

BasisA(k) == self.monomial_sets[k].A
BasisB(k) == IF self.monomial_sets[k].pair THEN self.monomial_sets[k].B ELSE <<One>>
CellsOf(k) == SequentialCells(Len(BasisA(k)), Len(BasisB(k)))
BlockOffset(k) == RowOffset(self.block_struct, FirstMomentBlock + k - 1)
RowOfCellIn(k, c) ==
    BlockOffset(k) + CellRow(0, c[1], c[2], Len(BasisA(k)) * Len(BasisB(k)), c[3], c[4],
                             Len(BasisB(k)))
CanonicalIn(k, c) ==
    apply_substitutions(CellMonomial(BasisA(k), BasisB(k), FALSE, c[1], c[2], c[3], c[4]),
                        self.substitutions, self.pure_substitution_rules)
TopLeft == <<0, 0, 0, 0>>
IsUnit(poly) == Len(poly) = 1 /\ poly[1].w = One /\ poly[1].c = 1

\* C14: in every moment block the top-left cell is written as the constant 1
\* in column 0 when normalized is true, and as coefficient 1 on a variable
\* that no other row of F uses when normalized is false; every other cell
\* whose product is the number 1 is written as 1 in column 0.
C14_UnitCells ==
    (Built /\ ~last.args.removeequalities) =>
        \A k \in 1..Len(self.monomial_sets) :
            /\ IF self.normalized
               THEN <<0, 1>> \in RowEntries(self.F_struct, BlockOffset(k))
               ELSE \E v \in 1..self.n_vars :
                       /\ <<v, 1>> \in RowEntries(self.F_struct, BlockOffset(k))
                       /\ \A e \in self.F_struct.data : e[2] = v => e[1] = BlockOffset(k)
            /\ \A c \in Elements(CellsOf(k)) :
                    (c # TopLeft /\ IsUnit(CanonicalIn(k, c)))
                        => <<0, 1>> \in RowEntries(self.F_struct, RowOfCellIn(k, c))

\* the call found the hash of its constraints stored and returned at once
\* (line 948-950)
HashHit ==
    /\ \/ last.op = "get_relaxation"
       \/ last.args.block_index \in {0, last.before.constraint_starting_block}
    /\ last.before.constraints_hash =
          ConstraintsHash(last.args.inequalities, last.args.equalities,
                          last.args.momentequalities,
                          last.args.removeequalities)

\* the call eliminated equalities and returned
Eliminated ==
    /\ last.op \in {"get_relaxation", "process_constraints"}
    /\ last.args.removeequalities
    /\ ~IsNone(last.args.equalities)
    /\ ~HashHit
    /\ self.err = NoErr

\* the relaxation the elimination of the call started from: the call up to
\* __remove_equalities
BeforeElimination ==
    IF last.op = "get_relaxation"
    THEN LET started(b) ==
                process_constraints_unguarded(b, last.args.inequalities, None, None,
                                              b.constraint_starting_block, TRUE)
         IN  started(build_moment_matrices(Enter(last.before), last.args))
    ELSE process_constraints_unguarded(Enter(last.before), last.args.inequalities, None,
                                       None,
                                       last.args.block_index, TRUE)

RECURSIVE subs(_, _, _)
subs(monomial, lhs, rhs) ==
    IF Len(monomial.w) < Len(lhs) THEN monomial
    ELSE IF SubSeq(monomial.w, 1, Len(lhs)) = lhs
    THEN LET rest == subs(Term(monomial.c, SubSeq(monomial.w, Len(lhs) + 1, Len(monomial.w))),
                          lhs, rhs)
         IN  Term(rhs.c * rest.c, rhs.w \o rest.w)
    ELSE LET rest == subs(Term(monomial.c, Tail(monomial.w)), lhs, rhs)
         IN  Term(rest.c, <<Head(monomial.w)>> \o rest.w)

Rule(lhs, rhs) == [lhs |-> lhs, rhs |-> rhs]
\* the dictionaries monomial_substitutions, in the order of their items; no
\* rule makes a word longer
MonomialSubstitutionArgs ==
    { <<>>,
      <<Rule(<<"X", "X">>, Term(1, One))>>,
      <<Rule(<<"X", "Y">>, Term(1, <<"Y", "X">>))>>,
      <<Rule(<<"X">>, Term(1, <<"Y">>)), Rule(<<"Y">>, Term(1, <<"X">>))>>,
      <<Rule(<<"X">>, Term(-1, <<"X">>))>>,
      <<Rule(<<"X", "Y">>, Term(1, <<"Y", "X">>)), Rule(<<"Y", "X">>, Term(-1, <<"X", "Y">>))>> }
\* the monomials the rules are applied to
MonomialArgs ==
    { Term(1, w) : w \in {One, <<"X">>, <<"Y">>, <<"X", "Y">>, <<"Y", "X">>, <<"X", "X">>,
                          <<"X", "X", "Y">>, <<"X", "Y", "X">>} }

\* a call of __apply_substitutions(monomial) at its first line; self is the
\* object of sdprelaxation.py, last the frame of the call, rule the number of
\* items the for loop has gone through
InitSubs ==
    /\ \E rules \in MonomialSubstitutionArgs : self = [monomial_substitutions |-> rules]
    /\ \E monomial \in MonomialArgs :
          last = [op |-> "__apply_substitutions", pc |-> "while", monomial |-> monomial,
                  original_monomial |-> monomial, changed |-> TRUE, rule |-> 0]
    /\ ops = 0

\* while changed: (line 59); return monomial (line 69)
WhileChanged ==
    /\ last.op = "__apply_substitutions" /\ last.pc = "while"
    /\ last' = IF last.changed THEN [last EXCEPT !.pc = "for", !.rule = 0]
               ELSE [last EXCEPT !.pc = "returned"]
    /\ UNCHANGED <<self, ops>>

\* one turn of the for loop (lines 60-64)
ForRule ==
    /\ last.op = "__apply_substitutions" /\ last.pc = "for"
    /\ last.rule < Len(self.monomial_substitutions)
    /\ last' = [last EXCEPT
                  !.monomial = subs(@, self.monomial_substitutions[last.rule + 1].lhs,
                                    self.monomial_substitutions[last.rule + 1].rhs),
                  !.rule = @ + 1]
    /\ UNCHANGED <<self, ops>>

\* the comparison after the for loop (lines 66-68)
CompareOriginal ==
    /\ last.op = "__apply_substitutions" /\ last.pc = "for"
    /\ last.rule = Len(self.monomial_substitutions)
    /\ last' = [last EXCEPT
                  !.changed = IF last.original_monomial = last.monomial THEN FALSE ELSE @,
                  !.original_monomial = last.monomial,
                  !.pc = "while"]
    /\ UNCHANGED <<self, ops>>

NextSubs == WhileChanged \/ ForRule \/ CompareOriginal

SpecSubs == InitSubs /\ [][NextSubs]_vars

\* the interpreter goes on executing the loop
SpecSubsFair == SpecSubs /\ WF_vars(NextSubs)

\* C17: every call of __apply_substitutions comes to an end: it returns, or
\* it raises the error of a rule set that does not terminate.
C17_Terminates == <>(last.pc \in {"returned", "raised"})

\* C18: when process_constraints fails because a monomial of a constraint is
\* found neither in the index nor through its adjoint, F, n_vars,
\* monomial_index and obj_facvar are as they were before the call.
C18_NotFoundLeavesState ==
    (last.op = "process_constraints" /\ self.err = "RuntimeError: monomial not found") =>
        /\ self.F_struct = last.before.F_struct
        /\ self.n_vars = last.before.n_vars
        /\ self.monomial_index = last.before.monomial_index
        /\ self.obj_facvar = last.before.obj_facvar

\* the cells of the k-th basis that reach _push_monomial: all of them in the
\* sequential path, the one cell each call of the pool returns in the parallel
\* path
PushedCells(k) ==
    IF self.parallel
    THEN {<<a[1], a[2], a[3], Len(BasisB(k)) - 1>> :
            a \in Elements(ParallelArgs(Len(BasisA(k)), Len(BasisB(k))))}
    ELSE Elements(CellsOf(k))
DeclaredSize(k) == self.block_struct[FirstMomentBlock + k]

\* C19: every row the moment-matrix generator writes lies in the square of
\* its block as block_struct declares it, in the upper triangle: with n the
\* declared size and o the row offset, o <= r < o + n*n and r - o = i*n + j
\* with 0 <= i <= j < n.
C19_InsideBlock ==
    Built =>
        \A k \in 1..Len(self.monomial_sets) : \A c \in PushedCells(k) :
            LET inside(r, o, n) ==
                    /\ o <= r
                    /\ r < o + n * n
                    /\ (r - o) \div n <= (r - o) % n
            IN  inside(RowOfCellIn(k, c), BlockOffset(k), DeclaredSize(k))

\* the calls of _push_monomial for the k-th basis, in their order, each
\* <<rowA, columnA, rowB, columnB, monomial>>: in the sequential loops, and
\* from the results of the pool
SequentialPushes(k) ==
    [i \in 1..Len(CellsOf(k)) |-> CellsOf(k)[i] \o <<CanonicalIn(k, CellsOf(k)[i])>>]
ParallelPushes(k) ==
    LET args == ParallelArgs(Len(BasisA(k)), Len(BasisB(k)))
    IN  [i \in 1..Len(args) |->
            assemble_monomial_and_do_substitutions(
                args[i], BasisA(k), BasisB(k), FALSE, self.substitutions,
                self.pure_substitution_rules)]

\* C20: in parallel mode the cells pushed, their monomials and their order
\* are those of the sequential loops.
C20_ParallelTraversal ==
    (Built /\ self.parallel) =>
        \A k \in 1..Len(self.monomial_sets) : ParallelPushes(k) = SequentialPushes(k)

\* ------------------------------------------------ sums in one cell of F
\* the column a term of a pushed product is written to, and its coefficient
\* (_process_monomial, lines 238-259; a number goes to column 0)
ColumnOfTerm(t) ==
    IF t.w = One \/ t.w \in DOMAIN self.moment_substitutions THEN 0
    ELSE IF t.w \in DOMAIN self.monomial_index THEN self.monomial_index[t.w]
    ELSE -1
CoeffOfTerm(t) ==
    IF t.w \in DOMAIN self.moment_substitutions
    THEN t.c * self.moment_substitutions[t.w] ELSE t.c
SumInColumn(poly, k) ==
    SumSeq([i \in 1..Len(poly) |->
               IF ColumnOfTerm(poly[i]) = k THEN CoeffOfTerm(poly[i]) ELSE 0])

\* a sequential build of one moment matrix on one basis
OneMatrix ==
    /\ Built
    /\ ~self.parallel
    /\ Len(self.monomial_sets) = 1
    /\ ~self.monomial_sets[1].pair
    /\ IsNone(last.args.extramomentmatrices)
SumCells == {c \in Elements(CellsOf(1)) : is_Add(CanonicalIn(1, c))}

\* C21: when the product of one moment-matrix cell is a sum, the value F
\* holds for the cell in every column is the sum of the coefficients of the
\* terms that map to that column, the constant column included.
C21_AdditiveWrites ==
    OneMatrix =>
        \A c \in SumCells : \A k \in 0..self.n_vars :
            F_get(self.F_struct, RowOfCellIn(1, c), k) = SumInColumn(CanonicalIn(1, c), k)

\* ------------------------------------------------------ moment equalities
\* the call processed its constraints: it returned, and not at the hash guard
Processed ==
    /\ last.op \in {"get_relaxation", "process_constraints"}
    /\ (last.op = "get_relaxation" => last.built = Some(SixOf(last.args)))
    /\ self.err = NoErr
    /\ ~HashHit
MomentEqualitiesOfCall == flatten(<<last.args.momentequalities>>)
SimpleOfCall ==
    {Get(check_simple_substitution(MomentEqualitiesOfCall[i])) :
        i \in {j \in 1..Len(MomentEqualitiesOfCall) :
                 ~IsNone(check_simple_substitution(MomentEqualitiesOfCall[j]))}}
OthersOfCall == NotSimple(last.args.momentequalities)
\* the constraints the inequalities and the equalities of the call contribute
BeforeMoments ==
    Len(flatten(<<last.args.inequalities>>))
    + (IF last.args.removeequalities THEN 0
       ELSE 2 * Len(flatten(<<last.args.equalities>>)))
PairsOfOthers ==
    ConcatAll([i \in 1..Len(OthersOfCall) |-> <<OthersOfCall[i], Neg(OthersOfCall[i])>>])

\* the localizing monomial sets, one for each localizing block
LocalizingSets == flatten(<<self.localizing_monomial_sets>>)

\* C22: after a call that processed moment equalities, every one that is a
\* simple substitution is recorded in moment_substitutions and adds no block
\* and no constraint; every other one adds two 1x1 blocks and the
\* constraints meq, -meq when removeequalities is false and nothing when it
\* is true; the constraints and the localizing blocks correspond one to one.
C22_MomentEqualities ==
    (Processed /\ MomentEqualitiesOfCall # <<>>) =>
        /\ \A r \in SimpleOfCall :
              /\ r[1] \in DOMAIN self.moment_substitutions
              /\ self.moment_substitutions[r[1]] = r[2]
        /\ Len(self.constraints) =
              BeforeMoments + (IF last.args.removeequalities THEN 0
                               ELSE 2 * Len(OthersOfCall))
        /\ last.args.removeequalities \/
              SubSeq(self.constraints, BeforeMoments + 1, Len(self.constraints))
                  = PairsOfOthers
        /\ Len(LocalizingSets) = Len(self.constraints)
        /\ \A i \in (BeforeMoments + 1)..Len(LocalizingSets) : LocalizingSets[i] = <<One>>
        /\ Len(self.block_struct) >= Len(LocalizingSets)
        /\ \A i \in 1..Len(LocalizingSets) :
              self.block_struct[Len(self.block_struct) - Len(LocalizingSets) + i]
                  = Len(LocalizingSets[i])

\* the same, on the calls of get_relaxation alone
MomentEqualitiesInGetRelaxation == last.op = "get_relaxation" => C22_MomentEqualities

\* ------------------------------------------------------- the hash guard
\* C25: a call that returns at the hash guard has the six arguments
\* (inequalities, equalities, bounds, momentinequalities, momentequalities,
\* removeequalities) of the previous call that stored its hash, each equal to
\* the one in the same place; a call that differs in any of them is not
\* skipped.
C25_SkipsOnlyEqualArguments ==
    (/\ last.op \in {"get_relaxation", "process_constraints"}
     /\ self.err = NoErr
     /\ HashHit)
        => last.hashed_before = Some(SixOf(last.args))

\* ------------------------------------------------------ the level check
\* C28: a call of get_relaxation whose level argument is below -1 raises
\* the invalid-level exception before anything is built, on the first call
\* of an object and on a later one: level, substitutions, monomial sets,
\* block structure, index and F are those of before the call.
C28_InvalidLevelRejected ==
    (last.op = "get_relaxation" /\ last.args.level < -1) =>
        /\ self.err = "Exception: invalid level"
        /\ Enter(self) = Enter(last.before)

\* ---------------------------------------------------------- the objective
\* the call set the objective: set_objective returned, or get_relaxation did
ObjectiveSet ==
    /\ last.op \in {"get_relaxation", "set_objective"}
    /\ self.err = NoErr
\* the constant of the objective of the call
ConstantOfObjective ==
    IF IsNone(last.args.objective) THEN 0
    ELSE SumInColumn(simplify_polynomial(Get(last.args.objective), self.substitutions), 0)

\* C27: after every call that sets the objective, obj_facvar has n_vars
\* entries and constant_term is the constant of the objective of that call,
\* 0 when the objective is None.
C27_ObjectiveOfTheCall ==
    ObjectiveSet =>
        /\ Len(self.obj_facvar) = self.n_vars
        /\ self.constant_term = ConstantOfObjective

\* ------------------------------------------------ a monomial and its adjoint
\* C24: no monomial_index holds a monomial and its adjoint under two ids: a
\* monomial that is indexed while its adjoint is in the index takes the id of
\* the adjoint.
C24_AdjointSharesId ==
    \A w \in DOMAIN self.monomial_index :
        Adjoint(w) \in DOMAIN self.monomial_index
            => self.monomial_index[Adjoint(w)] = self.monomial_index[w]

\* ------------------------------------------------------ the columns of F
\* C26: no build writes to a column outside the columns allocated for F
\* from the estimated number of variables, and the number of variables of a
\* finished build is at most the estimate: no get_relaxation ends in the
\* IndexError of a column index or in the ValueError of a copy that does not
\* fit, and n_vars + 1 is at most the number of columns.
C26_ColumnsAllocated ==
    last.op = "get_relaxation" =>
        /\ self.err \notin {ColumnOutOfRange, "ValueError"}
        /\ Built => self.n_vars + 1 <= self.F_struct.ncols

\* ------------------------------------------- sdprelaxation.py: __get_facvar
\* one turn of the for loop of __apply_substitutions over all the rules
RECURSIVE for_rules(_, _, _)
for_rules(monomial, rules, i) ==
    IF i > Len(rules) THEN monomial
    ELSE for_rules(subs(monomial, rules[i].lhs, rules[i].rhs), rules, i + 1)

\* SdpRelaxation.__apply_substitutions of sdprelaxation.py as a whole, for
\* rules with which the loop ends
RECURSIVE sdprelaxation_apply_substitutions(_, _)
sdprelaxation_apply_substitutions(monomial, rules) ==
    LET compared(m) ==
            IF m = monomial THEN m ELSE sdprelaxation_apply_substitutions(m, rules)
    IN  compared(for_rules(monomial, rules, 1))

\* ncutils.get_ncmonomials for Hermitian variables
get_ncmonomials(variables, order) ==
    ConcatAll([d \in 1..(order + 1) |-> WordsOfDegree(variables, d - 1)])

\* the object of sdprelaxation.py after __init__(variable_blocks)
sdprelaxation_init(variables) ==
    [ monomial_substitutions |-> <<>>, monomial_dictionary |-> EmptyMap, n_vars |-> 0,
      F |-> <<>>, block_struct |-> <<>>, obj_facvar |-> <<>>,
      variable_blocks |-> <<variables>>, extra_variables |-> <<>>,
      n_monomials_in_blocks |-> <<>>, offsets |-> <<>>, err |-> NoErr ]

\* SdpRelaxation.__index2linear
index2linear(s, i, j, monomial_block_index) ==
    s.offsets[monomial_block_index + 1]
        + i * s.n_monomials_in_blocks[monomial_block_index + 1] + j + 1

\* Entry(block_index, row, column, value), the value as <<numerator,
\* denominator>>
Entry(block_index, row, column, value) ==
    [block_index |-> block_index, row |-> row, column |-> column, value |-> value]

\* self.F[k].append(e)
F_append(s, k, e) == [s EXCEPT !.F[k + 1] = Append(@, e)]

\* SdpRelaxation.__process_monomial of sdprelaxation.py: [s, k]; the sign of
\* the monomial is dropped
sdprelaxation_process_monomial(s, monomial, row, column, monomial_block_index) ==
    IF monomial.w \in DOMAIN s.monomial_dictionary
    THEN LET found(indices) ==
                [s |-> s, k |-> index2linear(s, indices[1], indices[2], indices[3])]
         IN  found(s.monomial_dictionary[monomial.w])
    ELSE [s |-> [s EXCEPT !.monomial_dictionary =
                    (monomial.w :> <<row, column, monomial_block_index>>) @@ @],
          k |-> index2linear(s, row, column, monomial_block_index)]

\* the loops of SdpRelaxation.__generate_moment_matrix (lines 200-233); no
\* rule of the inputs makes a monomial 0
RECURSIVE moment_cells(_, _, _, _, _)
moment_cells(s, cells, monomials, block_index, monomial_block_index) ==
    IF Len(cells) = 0 THEN s
    ELSE LET row == Head(cells)[1]
             column == Head(cells)[2]
             product(u, v) ==
                sdprelaxation_apply_substitutions(
                    Term(1, Adjoint(monomials[u + 1]) \o monomials[v + 1]),
                    s.monomial_substitutions)
             e(value) == Entry(block_index, row + 1, column + 1, value)
             both(p, q) ==
                IF q.k = p.k THEN F_append(q.s, p.k, e(<<1, 1>>))
                ELSE F_append(F_append(q.s, q.k, e(<<1, 2>>)), p.k, e(<<1, 2>>))
             pushed(p) ==
                IF row = column THEN F_append(p.s, p.k, e(<<1, 1>>))
                ELSE both(p, sdprelaxation_process_monomial(
                                p.s, product(column, row), column, row,
                                monomial_block_index))
         IN  moment_cells(
                pushed(sdprelaxation_process_monomial(s, product(row, column), row, column,
                                                      monomial_block_index)),
                Tail(cells), monomials, block_index, monomial_block_index)

\* SdpRelaxation.__generate_moment_matrix
sdprelaxation_generate_moment_matrix(s, monomials, block_index, monomial_block_index) ==
    LET generated(s1) == [s1 EXCEPT !.block_struct = Append(@, Len(monomials))]
    IN  generated(moment_cells(s, UpperCells(Len(monomials)), monomials, block_index + 1,
                               monomial_block_index))

\* the loop of SdpRelaxation.__get_facvar over the elements (lines 138-162);
\* g = [s, facvar, err]
RECURSIVE sdprelaxation_facvar_elements(_, _)
sdprelaxation_facvar_elements(g, elements) ==
    IF Len(elements) = 0 \/ g.err # NoErr THEN g
    ELSE LET element == Head(elements)
             added(s1, indices, coeff) ==
                [s |-> s1,
                 facvar |-> [g.facvar EXCEPT
                                ![index2linear(s1, indices[1], indices[2], indices[3])] =
                                    @ + coeff],
                 err |-> NoErr]
             \* indices[0], indices[1] = indices[1], indices[0] on the list
             \* the dictionary holds
             swapped(dagger, coeff) ==
                added([g.s EXCEPT !.monomial_dictionary[dagger] = <<@[2], @[1], @[3]>>],
                      <<g.s.monomial_dictionary[dagger][2],
                        g.s.monomial_dictionary[dagger][1],
                        g.s.monomial_dictionary[dagger][3]>>, coeff)
             located(monomial, coeff) ==
                IF monomial \in DOMAIN g.s.monomial_dictionary
                THEN added(g.s, g.s.monomial_dictionary[monomial], coeff)
                ELSE IF Adjoint(monomial) \in DOMAIN g.s.monomial_dictionary
                THEN swapped(Adjoint(monomial), coeff)
                ELSE [g EXCEPT !.err = "KeyError"]
             signed(m) == located(m.w, IF m.c < 0 THEN 0 - element.c ELSE element.c)
         IN  sdprelaxation_facvar_elements(
                signed(sdprelaxation_apply_substitutions(Term(1, element.w),
                                                         g.s.monomial_substitutions)),
                Tail(elements))

\* SdpRelaxation.__get_facvar of sdprelaxation.py: [s, facvar, err]
sdprelaxation_get_facvar(s, polynomial) ==
    LET zero == [s |-> s, facvar |-> [k \in 1..s.n_vars |-> 0], err |-> NoErr]
    IN  IF polynomial.int THEN zero
        ELSE sdprelaxation_facvar_elements(zero, polynomial.elements)

\* SdpRelaxation.__compact_sdp_variables
compact_sdp_variables(s) ==
    LET used == SelectSeq(Range(0, s.n_vars + 1), LAMBDA i : Len(s.F[i + 1]) > 0)
        kept == SelectSeq(used, LAMBDA i : i > 0)
    IN  [s EXCEPT !.n_vars = Len(used) - 1,
                  !.F = [i \in 1..Len(used) |-> s.F[used[i] + 1]],
                  !.obj_facvar = [i \in 1..Len(kept) |-> s.obj_facvar[kept[i]]]]

\* SdpRelaxation.get_relaxation of sdprelaxation.py with one block of
\* variables, no inequalities and no equalities: [s, generated], generated
\* the dictionary as the moment matrix left it
sdprelaxation_get_relaxation(s, obj, monomial_substitutions, order) ==
    LET monomials == get_ncmonomials(s.variable_blocks[1], order)
        n == Len(monomials)
        s1 == [s EXCEPT !.monomial_substitutions = monomial_substitutions,
                        !.n_monomials_in_blocks = Append(@, n),
                        !.n_vars = n * n + Len(s.extra_variables),
                        !.offsets = <<0, n * n>>,
                        !.F = [k \in 1..(n * n + Len(s.extra_variables) + 1) |-> <<>>],
                        !.block_struct = <<-2>>]
        corner(s2, e) == F_append(F_append(s2, 0, e), index2linear(s2, 0, 0, 0), e)
        objective(s3, f) ==
            [s |-> IF f.err # NoErr THEN [f.s EXCEPT !.err = f.err]
                   ELSE compact_sdp_variables([f.s EXCEPT !.obj_facvar = f.facvar]),
             generated |-> s3.monomial_dictionary]
        matrix(s3) == objective(s3, sdprelaxation_get_facvar(s3, obj))
    IN  matrix(sdprelaxation_generate_moment_matrix(
                  corner(corner(s1, Entry(1, 1, 1, <<1, 1>>)), Entry(1, 2, 2, <<-1, 1>>)),
                  monomials, 1, 0))

\* the rules of a call: none, X*X -> 1, X*Y -> Z*Z*X, X*Y -> Y*X, X*Y -> -Y*X
FacvarRuleArgs ==
    { <<>>,
      <<Rule(<<"X", "X">>, Term(1, One))>>,
      <<Rule(<<"X", "Y">>, Term(1, <<"Z", "Z", "X">>))>>,
      <<Rule(<<"X", "Y">>, Term(1, <<"Y", "X">>))>>,
      <<Rule(<<"X", "Y">>, Term(-1, <<"Y", "X">>))>> }
Polynomial(elements) == [int |-> FALSE, elements |-> elements]
FacvarWords ==
    {<<"X">>, <<"Y">>, <<"X", "Y">>, <<"Y", "X">>, <<"X", "X">>, <<"Z", "Z">>,
     <<"Z", "Z", "X">>, <<"X", "Z", "Z">>}
\* the objectives: the int 0, one monomial, or a sum of two
FacvarObjectiveArgs ==
    {[int |-> TRUE, elements |-> <<>>]}
    \cup {Polynomial(<<Term(c, w)>>) : c \in {1, -1}, w \in FacvarWords}
    \cup {Polynomial(<<Term(1, <<"X">>), Term(1, <<"Y">>)>>),
          Polynomial(<<Term(1, <<"X", "Y">>), Term(1, <<"Y", "X">>)>>),
          Polynomial(<<Term(1, <<"Z", "Z", "X">>), Term(1, <<"X", "Z", "Z">>)>>),
          Polynomial(<<Term(1, <<"X", "Z", "Z">>), Term(1, <<"Z", "Z", "X">>)>>),
          Polynomial(<<Term(1, <<"X", "Z", "Z">>), Term(2, <<"X", "Z", "Z">>)>>)}

InitFacvar ==
    /\ \E variables \in {<<"X", "Y">>, <<"X", "Y", "Z">>} :
          self = sdprelaxation_init(variables)
    /\ last = [op |-> "init", obj |-> [int |-> TRUE, elements |-> <<>>],
               generated |-> EmptyMap]
    /\ ops = 0

\* get_relaxation(obj, [], [], monomial_substitutions, 1) on a new object
GetRelaxationFacvar ==
    /\ ops = 0
    /\ \E obj \in FacvarObjectiveArgs, monomial_substitutions \in FacvarRuleArgs :
          LET returned(r) ==
                  /\ self' = r.s
                  /\ last' = [op |-> "get_relaxation", obj |-> obj,
                              generated |-> r.generated]
          IN  returned(sdprelaxation_get_relaxation(self, obj, monomial_substitutions, 1))
    /\ ops' = ops + 1

NextFacvar == GetRelaxationFacvar

SpecFacvar == InitFacvar /\ [][NextFacvar]_vars

\* C29: __get_facvar leaves the monomial dictionary as it found it, also
\* when it finds a monomial through its adjoint: after get_relaxation the
\* dictionary is the one the moment matrix generated.
C29_FacvarReadsOnly ==
    last.op = "get_relaxation" => self.monomial_dictionary = last.generated

\* ------------------------------------------------ the export of complex F
ComplexExport ==
    /\ last.op = "write_to_sdpa"
    /\ last.result.err = NoErr
    /\ dtype(last.before) = "complex128"

\* the block and the cell of a stored entry
CellOfEntry(rel, e) ==
    convert_row_to_sdpa_index(rel.block_struct, row_offsets_of(rel.block_struct), e[1])

\* the file has a line of this block, cell and value
HasLine(file, block, i, j, value) ==
    \E n \in 1..Len(file.lines) :
        /\ file.lines[n].block = block
        /\ file.lines[n].i = i
        /\ file.lines[n].j = j
        /\ file.lines[n].value = value

\* the file has such a line under the index k
HasLineUnder(file, k, block, i, j, value) ==
    \E n \in 1..Len(file.lines) :
        file.lines[n] = SdpaLine(k, block, i, j, value)

IndicesOf(rel, e) ==
    {l.k : l \in Elements(lines_of_entry(rel, row_offsets_of(rel.block_struct), e).lines)}

\* C30: in the export of a complex relaxation the entries of distinct
\* columns of F are never written under the same index: the lines of
\* column k are under k (real parts) and, for k >= 1, under k + n_vars
\* (imaginary parts), and the imaginary part of column 0 is under no index
\* of a variable.
C30_ColumnsApart ==
    ComplexExport =>
        LET file == Get(last.result.file)
            rel == last.before
        IN  \A e \in rel.F_struct.data :
                /\ \A k \in IndicesOf(rel, e) : \E n \in 1..Len(file.lines) : file.lines[n].k = k
                /\ IF e[2] = 0 THEN IndicesOf(rel, e) \cap (1..(2 * rel.n_vars)) = {}
                   ELSE IndicesOf(rel, e) \subseteq {e[2], e[2] + rel.n_vars}
                /\ \A d \in rel.F_struct.data :
                        d[2] # e[2] => IndicesOf(rel, d) \cap IndicesOf(rel, e) = {}

====
